---- MODULE Spec2Model ----
(***************************************************************************)
(* Model of the 591 rental bot: the scraper (src/scraper.js) with its       *)
(* search URL builder, the list extractor that runs in the page, the       *)
(* scrape591 aggregation pipeline and getContactInfo; and the server       *)
(* (src/unnamed/part_002, src/unnamed/part_004) with its region and rent   *)
(* commands and its crawl tasks; and saveListings (src/sheets.js).         *)
(*                                                                         *)
(* Text is a sequence of one-character strings.  A CJK character of the    *)
(* source is written as one token: "yuan" (U+5143), "yue" (U+6708),        *)
(* "gan" (U+4E7E), "shi" (U+6FD5), "fen" (U+5206), "li" (U+96E2).          *)
(***************************************************************************)
EXTENDS Integers, Sequences, FiniteSets, TLC

VARIABLES
    \* ---- scrape591 (src/scraper.js:291-403)
    pc,             \* position of the one scrape591 call
    targets,        \* options.targets
    maxResults,     \* options.maxResults
    onProgress,     \* TRUE: a callback was supplied, FALSE: null
    idx,            \* 1-based position of the for-of loop over targets
    browser,        \* "none" | "open" | "closed"
    listings,       \* the loop's const listings (result of scrapeRegion)
    allListings,    \* let allListings
    executionLogs,  \* const executionLogs
    progressCalls,  \* the lines handed to onProgress, in call order
    progressFailure,\* "none" | "threw": whether a callback call threw
    extracted,      \* per scraped target: what scrapeRegion did and returned
    site,           \* the pages the site can render for a target of this run
    \* ---- the list extractor alone (src/scraper.js:142-212)
    page,           \* the .item elements of a rendered page
    results,        \* what page.evaluate returned
    evaluated,      \* the extractor has run
    \* ---- price parsing alone (src/scraper.js:155-157)
    priceText,      \* the text of .item-info-price strong
    price,          \* the parsed price
    parsed,         \* the parse has run
    \* ---- buildSearchUrl alone (src/scraper.js:104-120)
    urlArgs,        \* [region, section, minRent, maxRent, keywords]
    url,            \* the returned URL
    built,          \* buildSearchUrl has run
    \* ---- getContactInfo (src/scraper.js:410-578)
    contactPc,      \* position of the one getContactInfo call
    contactBrowser, \* "none" | "open" | "closed"
    detail,         \* the detail page as page.evaluate finds it
    installed,      \* what ensureBrowserInstalled returned
    reveal,         \* how the reveal-phone step of lines 434-442 went
    contactFailure, \* the operation that rejected, or "none"
    contactInfo,    \* the value of the return statement reached
    \* ---- the webhook's region and rent commands (src/unnamed/part_002:270-371)
    searchConfig,   \* SEARCH_CONFIG: [targets, minRent, maxRent]
    command,        \* the command handled last: its input, locals and reply
    scrapeCall,     \* the rents handed to scrape591 by the last crawl
    \* ---- the server's crawl tasks (src/unnamed/part_004:85-277)
    isCrawling,     \* let isCrawling
    tasks,          \* the crawl tasks started so far: who started each, where it is
    \* ---- saveListings (src/sheets.js:385-457)
    sheet,          \* column A of the all-listings sheet, row by row
    saves,          \* the saveListings calls made so far
    \* ---- autoScroll (src/scraper.js:224-244)
    scrollPc,       \* position of the one autoScroll call
    totalHeight,    \* let totalHeight
    scrollHeight,   \* document.body.scrollHeight as the page has it now
    innerHeight,    \* window.innerHeight
    increments,     \* window.scrollBy calls made
    \* ---- a scrape591 run next to the webhook's commands
    arrays,         \* the target arrays allocated so far; a reference is an index
    run             \* the run: its options as destructured, position, targets used

pipelineVars == <<pc, targets, maxResults, onProgress, idx, browser, listings,
                  allListings, executionLogs, progressCalls, progressFailure,
                  extracted, site>>
extractVars == <<page, results, evaluated>>
priceVars == <<priceText, price, parsed>>
urlVars == <<urlArgs, url, built>>
contactVars == <<contactPc, contactBrowser, detail, installed, reveal,
                 contactFailure, contactInfo>>
commandVars == <<searchConfig, command, scrapeCall>>
\* the operations outside the list scraper
serverVars == <<isCrawling, tasks>>
sheetVars == <<sheet, saves>>
scrollVars == <<scrollPc, totalHeight, scrollHeight, innerHeight, increments>>
runVars == <<arrays, run>>
restVars == <<sheetVars, scrollVars, runVars>>
otherVars == <<contactVars, commandVars, serverVars, restVars>>
\* the list scraper
scraperVars == <<pipelineVars, extractVars, priceVars, urlVars>>
vars == <<pipelineVars, extractVars, priceVars, urlVars, otherVars>>

----------------------------------------------------------------------------
(* Bounds of the model *)

\* targets per scrape591 call
MaxTargets == 2
\* .item elements on one rendered page
MaxItems == 2
\* largest maxResults a call is given
MaxResultsBound == 2
\* characters of a price text drawn exhaustively
MaxPriceLen == 3
\* characters of a keywords argument drawn exhaustively
MaxKeywordLen == 2

----------------------------------------------------------------------------
(* Text helpers *)

Digits == <<"0", "1", "2", "3", "4", "5", "6", "7", "8", "9">>

IsDigit(c) == \E d \in 1..10 : Digits[d] = c

DigitValue(c) == (CHOOSE d \in 1..10 : Digits[d] = c) - 1

\* sequences over S of length at most n
SeqsUpTo(S, n) == UNION {[1..k -> S] : k \in 0..n}

RECURSIVE NatToText(_)
NatToText(n) ==
    IF n < 10 THEN <<Digits[n + 1]>>
    ELSE NatToText(n \div 10) \o <<Digits[(n % 10) + 1]>>

\* Number.prototype.toString / template-literal formatting of an integer
ToText(n) == IF n < 0 THEN <<"-">> \o NatToText(0 - n) ELSE NatToText(n)

\* String.prototype.trim on the model's whitespace
RECURSIVE TrimLeft(_)
TrimLeft(s) == IF s # <<>> /\ Head(s) = " " THEN TrimLeft(Tail(s)) ELSE s

RECURSIVE TrimRight(_)
TrimRight(s) ==
    IF s # <<>> /\ s[Len(s)] = " " THEN TrimRight(SubSeq(s, 1, Len(s) - 1)) ELSE s

Trim(s) == TrimRight(TrimLeft(s))

\* s occurs in t as a contiguous substring (String.prototype.includes)
Contains(t, s) ==
    \E i \in 1..(Len(t) - Len(s) + 1) : SubSeq(t, i, i + Len(s) - 1) = s

----------------------------------------------------------------------------
(* Price parsing: src/scraper.js:155-157 *)

\* priceText.replace(/[,yuan\/yue]/g, ''): the character class of line 157
PriceStripClass == {",", "yuan", "/", "yue"}

StripPriceChars(s) == SelectSeq(s, LAMBDA c : c \notin PriceStripClass)

RECURSIVE DigitPrefix(_)
DigitPrefix(s) ==
    IF s # <<>> /\ IsDigit(Head(s)) THEN <<Head(s)>> \o DigitPrefix(Tail(s))
    ELSE <<>>

RECURSIVE DigitsToNat(_)
DigitsToNat(s) ==
    IF s = <<>> THEN 0
    ELSE 10 * DigitsToNat(SubSeq(s, 1, Len(s) - 1)) + DigitValue(s[Len(s)])

\* parseInt(string) with no radix: leading whitespace is skipped, an optional
\* sign is read, then the longest run of decimal digits; NaN when there is none.
ParseInt(s) ==
    LET t == TrimLeft(s)
        neg == t # <<>> /\ Head(t) = "-"
        signed == t # <<>> /\ Head(t) \in {"-", "+"}
        body == IF signed THEN Tail(t) ELSE t
        ds == DigitPrefix(body)
    IN  IF ds = <<>> THEN [nan |-> TRUE, val |-> 0]
        ELSE [nan |-> FALSE,
              val |-> IF neg THEN 0 - DigitsToNat(ds) ELSE DigitsToNat(ds)]

\* x || 0 for a number x: NaN and 0 are falsy
OrZero(r) == IF r.nan THEN 0 ELSE r.val

\* const price = parseInt(priceText.replace(/[,yuan\/yue]/g, '')) || 0
\* where priceText = priceEl?.textContent?.trim() || ''
ParsePrice(text) == OrZero(ParseInt(StripPriceChars(Trim(text))))

\* newParse of src/test_price.js for a string argument
NewParse(text) ==
    OrZero(ParseInt(SelectSeq(text, LAMBDA c : IsDigit(c))))

----------------------------------------------------------------------------
(* The list extractor: the page.evaluate callback of scrapeRegion,          *)
(* src/scraper.js:142-212.                                                  *)
(*                                                                          *)
(* A page is the sequence of its .item elements in DOM order.  An item is   *)
(* [cands, priceText]: cands are the descendants matching                   *)
(* '.item-info-title a' or '.link.v-middle' in DOM order, each              *)
(* [sel, text, href]; priceText is the text of '.item-info-price strong'    *)
(* (empty when the element is missing).  An href is the number of its first *)
(* "/digits" path segment, or 0 when it has none (no attribute, empty, or   *)
(* without digits): what href.match(/\/(\d+)/) sees of it.                  *)

TitleSelectors == <<"item-info-title a", "link v-middle">>

\* item.querySelector('.item-info-title a, .link.v-middle'): the first
\* element in document order that matches any selector of the list
QueryTitleEl(item) ==
    IF item.cands = <<>> THEN [found |-> FALSE, text |-> <<>>, href |-> 0]
    ELSE [found |-> TRUE, text |-> item.cands[1].text, href |-> item.cands[1].href]

\* href.match(/\/(\d+)/)?.[1] || `unknown-${index}`
ListingId(href, index) ==
    IF href > 0 THEN [kind |-> "numeric", n |-> href]
    ELSE [kind |-> "unknown", n |-> index]

\* lines 149-157 for the item at 0-based position index
ParseItem(item, index) ==
    LET titleEl == QueryTitleEl(item)
    IN  [id |-> ListingId(titleEl.href, index),
         title |-> Trim(titleEl.text),
         price |-> ParsePrice(item.priceText)]

\* mutant of Emitted: the price test is forgotten
EmittedTitleOnly(rec) == rec.title # <<>>

\* if (title && price > 0) results.push({...})
Emitted(rec) == rec.title # <<>> /\ rec.price > 0

ExtractListings(items) ==
    SelectSeq([i \in 1..Len(items) |-> ParseItem(items[i], i - 1)], Emitted)

----------------------------------------------------------------------------
(* buildSearchUrl: src/scraper.js:104-120 *)

\* SEARCH_CONFIG.baseUrl, one token
BaseUrl == "https://rent.591.com.tw/list"

\* a falsy section, which `if (section)` skips: the undefined section
\* property of a whole-city target
NoSection == 0

\* `${SEARCH_CONFIG.filters.nearSubway},${SEARCH_CONFIG.filters.canCook}`
OtherFilter ==
    <<"n", "e", "a", "r", "_", "s", "u", "b", "w", "a", "y", ",", "c", "o", "o", "k">>

\* the keyword scrapeRegion and scrape591 pass (lines 126 and 340)
DryWetKeyword == <<"gan", "shi", "fen", "li">>

\* application/x-www-form-urlencoded byte serialisation of one character, as
\* URLSearchParams.prototype.toString applies it: ASCII alphanumerics and
\* * - . _ stay, a space becomes +, every other byte of the UTF-8 encoding
\* becomes %XX
FormEncodeChar(c) ==
    CASE c = " "    -> <<"+">>
      [] c = ","    -> <<"%", "2", "C">>
      [] c = "&"    -> <<"%", "2", "6">>
      [] c = "="    -> <<"%", "3", "D">>
      [] c = "+"    -> <<"%", "2", "B">>
      [] c = "%"    -> <<"%", "2", "5">>
      [] c = "gan"  -> <<"%", "E", "4", "%", "B", "9", "%", "B", "E">>
      [] c = "shi"  -> <<"%", "E", "6", "%", "B", "F", "%", "9", "5">>
      [] c = "fen"  -> <<"%", "E", "5", "%", "8", "8", "%", "8", "6">>
      [] c = "li"   -> <<"%", "E", "9", "%", "9", "B", "%", "A", "2">>
      [] OTHER      -> <<c>>

RECURSIVE FormEncode(_)
FormEncode(s) ==
    IF s = <<>> THEN <<>> ELSE FormEncodeChar(Head(s)) \o FormEncode(Tail(s))

\* URLSearchParams.prototype.toString: name=value pairs joined by &
RECURSIVE SerializeParams(_)
SerializeParams(ps) ==
    IF ps = <<>> THEN <<>>
    ELSE FormEncode(ps[1][1]) \o <<"=">> \o FormEncode(ps[1][2])
         \o (IF Len(ps) > 1 THEN <<"&">> ELSE <<>>)
         \o SerializeParams(Tail(ps))

\* mutant of SearchParams: the section is appended without the test of line 111
SearchParamsAlwaysSection(region, section, minRent, maxRent, keywords) ==
    <<  <<(<<"r", "e", "g", "i", "o", "n">>), ToText(region)>>,
        <<(<<"p", "r", "i", "c", "e">>), ToText(minRent) \o <<"_">> \o ToText(maxRent)>>,
        <<(<<"o", "t", "h", "e", "r">>), OtherFilter>>,
        <<(<<"s", "e", "c", "t", "i", "o", "n">>), ToText(section)>> >>
    \o (IF keywords # <<>>
        THEN << <<(<<"k", "e", "y", "w", "o", "r", "d", "s">>), keywords>> >>
        ELSE <<>>)

\* the URLSearchParams object of lines 105-117, as its list of pairs
SearchParams(region, section, minRent, maxRent, keywords) ==
    <<  <<(<<"r", "e", "g", "i", "o", "n">>), ToText(region)>>,
        <<(<<"p", "r", "i", "c", "e">>), ToText(minRent) \o <<"_">> \o ToText(maxRent)>>,
        <<(<<"o", "t", "h", "e", "r">>), OtherFilter>> >>
    \o (IF section # NoSection
        THEN << <<(<<"s", "e", "c", "t", "i", "o", "n">>), ToText(section)>> >>
        ELSE <<>>)
    \o (IF keywords # <<>>
        THEN << <<(<<"k", "e", "y", "w", "o", "r", "d", "s">>), keywords>> >>
        ELSE <<>>)

\* return `${SEARCH_CONFIG.baseUrl}?${params.toString()}`
buildSearchUrl(region, section, minRent, maxRent, keywords) ==
    <<BaseUrl, "?">>
    \o SerializeParams(SearchParams(region, section, minRent, maxRent, keywords))

----------------------------------------------------------------------------
(* scrape591: src/scraper.js:291-403 *)

\* the defaults of options.minRent and options.maxRent
DefaultMinRent == 8000
DefaultMaxRent == 12000

\* The k-th target of a call: targets alternate between a district of Taipei
\* (region 1, section k) and a whole city (region 3, no section); the display
\* names are pairwise distinct and written as the position k.
TargetAt(k) ==
    [region |-> IF k % 2 = 1 THEN 1 ELSE 3,
     section |-> IF k % 2 = 1 THEN k ELSE NoSection,
     name |-> k]

TargetList(n) == [k \in 1..n |-> TargetAt(k)]

Item(sel, text, href, ptext) ==
    [cands |-> << [sel |-> sel, text |-> text, href |-> href] >>, priceText |-> ptext]

\* The .item elements the pages of a pipeline run are made of: a listing
\* with a numeric detail link, one without, and one the extractor drops
\* (blank title).
PipelineItems ==
    { Item(TitleSelectors[1], <<"A">>, 1, <<"9", ",", "0", "0", "0">>),
      Item(TitleSelectors[2], <<"C">>, 0, <<"8", "0", "0", "0">>),
      Item(TitleSelectors[1], <<" ">>, 1, <<"9", ",", "0", "0", "0">>) }

\* the rendered pages that hold at least one .item element
PipelinePages == SeqsUpTo(PipelineItems, MaxItems) \ {<<>>}

\* How one onProgress(line) call ends: it returns or it throws.  The call is
\* not awaited, so a callback that returns a promise has returned, whether
\* the promise later resolves or rejects.
CallOutcomes == {"returned", "threw"}

Noted(r) == IF r = "returned" THEN progressFailure ELSE r

\* let logEntry of lines 345 and 357
TargetLog(target, found) ==
    [kind |-> "target", name |-> target.name,
     url |-> buildSearchUrl(target.region, target.section,
                            DefaultMinRent, DefaultMaxRent, DryWetKeyword),
     found |-> found]

\* listings.forEach(l => { l.region = target.name })
TagRegion(ls, name) ==
    [i \in 1..Len(ls) |->
        [id |-> ls[i].id, title |-> ls[i].title, price |-> ls[i].price,
         region |-> name]]

\* lines 372-380: keep the first record of every id
RECURSIVE DedupLoop(_, _, _)
DedupLoop(items, seenIds, uniqueListings) ==
    IF items = <<>> THEN uniqueListings
    ELSE IF Head(items).id \in seenIds
         THEN DedupLoop(Tail(items), seenIds, uniqueListings)
         ELSE DedupLoop(Tail(items), seenIds \cup {Head(items).id},
                        Append(uniqueListings, Head(items)))

\* mutant of Deduplicate: the last record of every id is kept
RECURSIVE DeduplicateKeepLast(_)
DeduplicateKeepLast(items) ==
    IF items = <<>> THEN <<>>
    ELSE IF \E j \in 2..Len(items) : items[j].id = Head(items).id
         THEN DeduplicateKeepLast(Tail(items))
         ELSE <<Head(items)>> \o DeduplicateKeepLast(Tail(items))

Deduplicate(items) == DedupLoop(items, {}, <<>>)

\* lines 386-388: allListings.slice(0, maxResults) when longer
Truncate(items, cap) ==
    IF Len(items) > cap THEN SubSeq(items, 1, cap) ELSE items

PipelineInit ==
    /\ pc = "start"
    /\ targets \in {TargetList(n) : n \in 0..MaxTargets}
    /\ maxResults \in 0..MaxResultsBound
    /\ onProgress \in BOOLEAN
    /\ idx = 1
    /\ browser = "none"
    /\ listings = <<>>
    /\ allListings = <<>>
    /\ executionLogs = <<>>
    /\ progressCalls = <<>>
    /\ progressFailure = "none"
    /\ extracted = <<>>
    /\ site = PipelinePages

\* no scrape591 call is modelled
PipelineIdle ==
    /\ pc = "idle"
    /\ targets = <<>>
    /\ maxResults = 0
    /\ onProgress = FALSE
    /\ idx = 1
    /\ browser = "none"
    /\ listings = <<>>
    /\ allListings = <<>>
    /\ executionLogs = <<>>
    /\ progressCalls = <<>>
    /\ progressFailure = "none"
    /\ extracted = <<>>
    /\ site = {}

ExtractIdle == page = <<>> /\ results = <<>> /\ evaluated = FALSE

PriceIdle == priceText = <<>> /\ price = 0 /\ parsed = FALSE

UrlIdle ==
    /\ urlArgs = [region |-> 1, section |-> NoSection, minRent |-> DefaultMinRent,
                  maxRent |-> DefaultMaxRent, keywords |-> <<>>]
    /\ url = <<>>
    /\ built = FALSE

\* no getContactInfo call is modelled
ContactIdle ==
    /\ contactPc = "idle"
    /\ contactBrowser = "none"
    /\ detail = [phoneEls |-> <<>>, lineEls |-> <<>>, bodyText |-> <<>>,
                 nameEls |-> <<>>, titleEls |-> <<>>, addressEls |-> <<>>,
                 breadcrumb |-> <<>>]
    /\ installed = FALSE
    /\ reveal = "none"
    /\ contactFailure = {}
    /\ contactInfo = <<>>

\* no webhook command is modelled
CommandIdle ==
    /\ searchConfig = [targets |-> <<>>, minRent |-> DefaultMinRent,
                       maxRent |-> DefaultMaxRent]
    /\ command = [kind |-> "none"]
    /\ scrapeCall = [kind |-> "none"]

\* no crawl task is modelled
ServerIdle == isCrawling = FALSE /\ tasks = <<>>

\* no saveListings call is modelled
SheetIdle == sheet = <<>> /\ saves = <<>>

\* no autoScroll call is modelled
ScrollIdle ==
    /\ scrollPc = "idle"
    /\ totalHeight = 0
    /\ scrollHeight = 0
    /\ innerHeight = 0
    /\ increments = 0

\* no run next to commands is modelled
RunIdle == arrays = <<>> /\ run = [pc |-> "idle"]

RestIdle == SheetIdle /\ ScrollIdle /\ RunIdle

OtherIdle == ContactIdle /\ CommandIdle /\ ServerIdle /\ RestIdle

ScraperIdle == PipelineIdle /\ ExtractIdle /\ PriceIdle /\ UrlIdle

\* lines 305-306: if (onProgress) onProgress(...), before anything is launched;
\* a throw here leaves the async function, whose promise rejects
NotifyStart ==
    /\ pc = "start"
    /\ \/ /\ ~onProgress
          /\ pc' = "launch"
          /\ UNCHANGED <<progressCalls, progressFailure>>
       \/ /\ onProgress
          /\ \E r \in CallOutcomes :
                /\ progressCalls' = Append(progressCalls, [kind |-> "start"])
                /\ progressFailure' = Noted(r)
                /\ pc' = IF r = "threw" THEN "rejected" ELSE "launch"
    /\ UNCHANGED <<site, targets, maxResults, onProgress, idx, browser, listings,
                   allListings, executionLogs, extracted>>
    /\ UNCHANGED <<extractVars, priceVars, urlVars, otherVars>>

\* lines 320-325: ensureBrowserInstalled() never throws; chromium.launch()
\* resolves with a browser or rejects
Launch ==
    /\ pc = "launch"
    /\ \/ browser' = "open" /\ pc' = "newContext"
       \/ pc' = "rejected" /\ UNCHANGED browser
    /\ UNCHANGED <<site, targets, maxResults, onProgress, idx, listings, allListings,
                   executionLogs, progressCalls, progressFailure, extracted>>
    /\ UNCHANGED <<extractVars, priceVars, urlVars, otherVars>>

\* lines 327-330: await browser.newContext(...), outside the try block
NewContext ==
    /\ pc = "newContext"
    /\ \/ pc' = "newPage"
       \/ pc' = "rejected"
    /\ UNCHANGED <<site, targets, maxResults, onProgress, idx, browser, listings,
                   allListings, executionLogs, progressCalls, progressFailure,
                   extracted>>
    /\ UNCHANGED <<extractVars, priceVars, urlVars, otherVars>>

\* lines 332-334: await context.newPage(), outside the try block, then the
\* two accumulators are created empty
NewPage ==
    /\ pc = "newPage"
    /\ \/ pc' = "loop" /\ allListings' = <<>> /\ executionLogs' = <<>>
       \/ pc' = "rejected" /\ UNCHANGED <<allListings, executionLogs>>
    /\ UNCHANGED <<site, targets, maxResults, onProgress, idx, browser, listings,
                   progressCalls, progressFailure, extracted>>
    /\ UNCHANGED <<extractVars, priceVars, urlVars, otherVars>>

\* one onProgress(line) call that ends r
CallProgress(line, r) ==
    /\ progressCalls' = Append(progressCalls, line)
    /\ progressFailure' = Noted(r)

\* lines 338-348: the loop takes the next target, builds the log URL and
\* announces the target; a throw of the callback enters the outer catch
IterStart ==
    /\ pc = "loop"
    /\ idx <= Len(targets)
    /\ \/ /\ ~onProgress
          /\ pc' = "scrapeRegion"
          /\ UNCHANGED <<progressCalls, progressFailure>>
       \/ /\ onProgress
          /\ \E r \in CallOutcomes :
                /\ CallProgress([kind |-> "scraping", name |-> targets[idx].name], r)
                /\ pc' = IF r = "threw" THEN "catch" ELSE "scrapeRegion"
    /\ UNCHANGED <<site, targets, maxResults, onProgress, idx, browser, listings,
                   allListings, executionLogs, extracted>>
    /\ UNCHANGED <<extractVars, priceVars, urlVars, otherVars>>

\* mutant of ScrapeRegionCatch: the failure leaves scrapeRegion and reaches
\* the catch of scrape591
ScrapeRegionRethrow ==
    /\ extracted' = Append(extracted, [failed |-> TRUE, listings |-> <<>>])
    /\ pc' = "catch"
    /\ UNCHANGED listings

\* scrapeRegion, lines 215-218: whatever rejected inside its try block
\* (page.goto, page.waitForSelector, autoScroll, page.evaluate), the catch
\* writes one console line and returns []
ScrapeRegionCatch ==
    /\ listings' = <<>>
    /\ extracted' = Append(extracted, [failed |-> TRUE, listings |-> <<>>])
    /\ pc' = "afterScrape"

\* scrapeRegion, lines 130-214: the page rendered with .item elements and
\* page.evaluate returned the extractor's records
ScrapeRegionReturn ==
    \E items \in site :
        /\ listings' = ExtractListings(items)
        /\ extracted' = Append(extracted,
                               [failed |-> FALSE, listings |-> ExtractListings(items)])
        /\ pc' = "afterScrape"

\* line 350: const listings = await scrapeRegion(page, ...)
ScrapeRegion ==
    /\ pc = "scrapeRegion"
    /\ \/ ScrapeRegionCatch
       \/ ScrapeRegionReturn
    /\ UNCHANGED <<site, targets, maxResults, onProgress, idx, browser, allListings,
                   executionLogs, progressCalls, progressFailure>>
    /\ UNCHANGED <<extractVars, priceVars, urlVars, otherVars>>

\* mutant of AfterScrape: the next target starts without the delay of line 368
AfterScrapeNoDelay ==
    /\ pc = "afterScrape"
    /\ executionLogs' = Append(executionLogs, TargetLog(targets[idx], Len(listings)))
    /\ allListings' = allListings \o TagRegion(listings, targets[idx].name)
    /\ idx' = idx + 1
    /\ pc' = "loop"
    /\ UNCHANGED <<site, targets, maxResults, onProgress, browser, listings, extracted,
                   progressCalls, progressFailure>>
    /\ UNCHANGED <<extractVars, priceVars, urlVars, otherVars>>

\* lines 351-365: report the count, push the log entry, tag and concatenate;
\* a throw of the callback on line 354 skips lines 357-365
AfterScrape ==
    /\ pc = "afterScrape"
    /\ LET target == targets[idx]
           line == [kind |-> "found", name |-> target.name, found |-> Len(listings)]
       IN  \/ /\ onProgress
              /\ CallProgress(line, "threw")
              /\ pc' = "catch"
              /\ UNCHANGED <<executionLogs, allListings>>
           \/ /\ \/ ~onProgress /\ UNCHANGED <<progressCalls, progressFailure>>
                 \/ onProgress /\ CallProgress(line, "returned")
              /\ executionLogs' = Append(executionLogs, TargetLog(target, Len(listings)))
              /\ allListings' = allListings \o TagRegion(listings, target.name)
              /\ pc' = "delay"
    /\ UNCHANGED <<site, targets, maxResults, onProgress, idx, browser, listings, extracted>>
    /\ UNCHANGED <<extractVars, priceVars, urlVars, otherVars>>

\* line 368: await new Promise(r => setTimeout(r, 2000)), then the next target
Delay ==
    /\ pc = "delay"
    /\ idx' = idx + 1
    /\ pc' = "loop"
    /\ UNCHANGED <<site, targets, maxResults, onProgress, browser, listings, allListings,
                   executionLogs, progressCalls, progressFailure, extracted>>
    /\ UNCHANGED <<extractVars, priceVars, urlVars, otherVars>>

\* mutant of Aggregate: the total line counts the listings before the slice
AggregateCountBeforeSlice ==
    /\ pc = "loop"
    /\ idx > Len(targets)
    /\ allListings' = Truncate(Deduplicate(allListings), maxResults)
    /\ executionLogs' = Append(executionLogs,
                               [kind |-> "total",
                                count |-> Len(Deduplicate(allListings))])
    /\ pc' = "finally"
    /\ UNCHANGED <<site, targets, maxResults, onProgress, idx, browser, listings,
                   progressCalls, progressFailure, extracted>>
    /\ UNCHANGED <<extractVars, priceVars, urlVars, otherVars>>

\* lines 371-393, after the last target: deduplicate, truncate, log the total
Aggregate ==
    /\ pc = "loop"
    /\ idx > Len(targets)
    /\ allListings' = Truncate(Deduplicate(allListings), maxResults)
    /\ executionLogs' = Append(executionLogs,
                               [kind |-> "total", count |-> Len(allListings')])
    /\ pc' = "finally"
    /\ UNCHANGED <<site, targets, maxResults, onProgress, idx, browser, listings,
                   progressCalls, progressFailure, extracted>>
    /\ UNCHANGED <<extractVars, priceVars, urlVars, otherVars>>

\* lines 395-397: the outer catch logs the error and falls through
Catch ==
    /\ pc = "catch"
    /\ executionLogs' = Append(executionLogs, [kind |-> "error"])
    /\ pc' = "finally"
    /\ UNCHANGED <<site, targets, maxResults, onProgress, idx, browser, listings,
                   allListings, progressCalls, progressFailure, extracted>>
    /\ UNCHANGED <<extractVars, priceVars, urlVars, otherVars>>

\* lines 398-402: await browser.close(), then return { listings, logs }
Finally ==
    /\ pc = "finally"
    /\ browser' = "closed"
    /\ pc' = "returned"
    /\ UNCHANGED <<site, targets, maxResults, onProgress, idx, listings, allListings,
                   executionLogs, progressCalls, progressFailure, extracted>>
    /\ UNCHANGED <<extractVars, priceVars, urlVars, otherVars>>

Init == PipelineInit /\ ExtractIdle /\ PriceIdle /\ UrlIdle /\ OtherIdle

Next ==
    \/ NotifyStart
    \/ Launch
    \/ NewContext
    \/ NewPage
    \/ IterStart
    \/ ScrapeRegion
    \/ AfterScrape
    \/ Delay
    \/ Aggregate
    \/ Catch
    \/ Finally

Spec == Init /\ [][Next]_vars

----------------------------------------------------------------------------
(* The list extractor on its own: page.evaluate of src/scraper.js:142-212  *)
(* applied to one rendered page.                                           *)

Cand(sel, text, href) == [sel |-> sel, text |-> text, href |-> href]

\* title/link candidates of one .item, in DOM order
TitleCands ==
    { <<>>,
      << Cand(TitleSelectors[1], <<"A">>, 1) >>,
      << Cand(TitleSelectors[2], <<"B">>, 2) >>,
      << Cand(TitleSelectors[1], <<"A">>, 0) >>,
      << Cand(TitleSelectors[1], <<" ">>, 1) >>,
      << Cand(TitleSelectors[1], <<>>, 1), Cand(TitleSelectors[2], <<"B">>, 2) >>,
      << Cand(TitleSelectors[2], <<"B">>, 2), Cand(TitleSelectors[1], <<"A">>, 1) >> }

\* texts of .item-info-price strong
PriceTexts ==
    { <<>>,
      <<"0">>,
      <<" ", "9", ",", "0", "0", "0", " ">>,
      <<"N", "T", "$", "9", ",", "0", "0", "0">>,
      <<"-", "5", "0", "0">> }

ExtractItems == {[cands |-> c, priceText |-> t] : c \in TitleCands, t \in PriceTexts}

ExtractInit ==
    /\ page \in SeqsUpTo(ExtractItems, MaxItems)
    /\ results = <<>>
    /\ evaluated = FALSE

\* const listings = await page.evaluate(() => { ... return results })
Evaluate ==
    /\ ~evaluated
    /\ results' = ExtractListings(page)
    /\ evaluated' = TRUE
    /\ UNCHANGED page
    /\ UNCHANGED <<pipelineVars, priceVars, urlVars, otherVars>>

InitExtract == PipelineIdle /\ ExtractInit /\ PriceIdle /\ UrlIdle /\ OtherIdle

SpecExtract == InitExtract /\ [][Evaluate]_vars

----------------------------------------------------------------------------
(* Price parsing on its own: src/scraper.js:155-157 applied to one text *)

\* the rawPrices of src/test_price.js:3-9
RawPrices ==
    { <<"N", "T", "$", "1", "2", ",", "0", "0", "0">>,
      <<"1", "2", "0", "0", "0">>,
      <<"N", "T", "$", " ", "1", "2", ",", "0", "0", "0">>,
      <<"1", "2", ",", "0", "0", "0">>,
      <<"$", "1", "2", "0", "0", "0">> }

\* "12,000yuan/yue", the second example of the specification
UnitPrice == <<"1", "2", ",", "0", "0", "0", "yuan", "/", "yue">>

PriceAlphabet == {"0", "1", ",", "yuan", "$", " ", "-"}

PriceInputs == RawPrices \cup {UnitPrice} \cup SeqsUpTo(PriceAlphabet, MaxPriceLen)

PriceInit ==
    /\ priceText \in PriceInputs
    /\ price = 0
    /\ parsed = FALSE

\* lines 155-157 for one .item-info-price strong element
ParsePriceText ==
    /\ ~parsed
    /\ price' = ParsePrice(priceText)
    /\ parsed' = TRUE
    /\ UNCHANGED priceText
    /\ UNCHANGED <<pipelineVars, extractVars, urlVars, otherVars>>

InitPrice == PipelineIdle /\ ExtractIdle /\ PriceInit /\ UrlIdle /\ OtherIdle

SpecPrice == InitPrice /\ [][ParsePriceText]_vars

----------------------------------------------------------------------------
(* buildSearchUrl on its own *)

KeywordAlphabet == {"a", " ", ",", "&", "=", "%", "+", "gan"}

UrlInit ==
    /\ urlArgs \in [region : {1, 3},
                    section : {NoSection, 3, 37},
                    minRent : {1000, DefaultMinRent},
                    maxRent : {DefaultMaxRent, 100000},
                    keywords : SeqsUpTo(KeywordAlphabet, MaxKeywordLen)
                               \cup {DryWetKeyword}]
    /\ url = <<>>
    /\ built = FALSE

\* one call buildSearchUrl(region, section, minRent, maxRent, keywords)
BuildUrl ==
    /\ ~built
    /\ url' = buildSearchUrl(urlArgs.region, urlArgs.section, urlArgs.minRent,
                             urlArgs.maxRent, urlArgs.keywords)
    /\ built' = TRUE
    /\ UNCHANGED urlArgs
    /\ UNCHANGED <<pipelineVars, extractVars, priceVars, otherVars>>

InitUrl == PipelineIdle /\ ExtractIdle /\ PriceIdle /\ UrlInit /\ OtherIdle

SpecUrl == InitUrl /\ [][BuildUrl]_vars

----------------------------------------------------------------------------
(* Properties of scrape591 *)

Min(a, b) == IF a < b THEN a ELSE b

\* the call has settled
Settled == pc \in {"returned", "rejected"}

\* the call returned after the target loop ran to its end: the last log
\* entry is the total line of line 393
CompletedNormally ==
    /\ pc = "returned"
    /\ executionLogs # <<>>
    /\ executionLogs[Len(executionLogs)].kind = "total"

\* the occurrences of the run, <<target position, position in its result>>
Occurrences ==
    UNION {{<<t, j>> : j \in 1..Len(extracted[t].listings)} : t \in 1..Len(extracted)}

\* o comes before q in the concatenation of the per-target results
Before(o, q) == o[1] < q[1] \/ (o[1] = q[1] /\ o[2] < q[2])

RecordAt(o) == extracted[o[1]].listings[o[2]]

\* the occurrences that are the first of their id
FirstOccurrences ==
    {o \in Occurrences :
        \A q \in Occurrences : Before(q, o) => RecordAt(q).id # RecordAt(o).id}

\* 1-based rank of a first occurrence among the first occurrences
Rank(o) == Cardinality({q \in FirstOccurrences : Before(q, o)}) + 1

\* the earliest target, in the caller's order, whose result holds id
EarliestTarget(id) ==
    CHOOSE t \in 1..Len(extracted) :
        /\ \E j \in 1..Len(extracted[t].listings) : extracted[t].listings[j].id = id
        /\ \A u \in 1..(t - 1) :
              \A j \in 1..Len(extracted[u].listings) : extracted[u].listings[j].id # id

\* C1: whichever path a returning scrape591 call took, the returned listings
\* hold no two records with the same id.
C1_NoDuplicateIds ==
    pc = "returned" =>
        \A i, j \in 1..Len(allListings) :
            i # j => allListings[i].id # allListings[j].id

\* C2: whichever path a returning scrape591 call took, it returns at most
\* maxResults listings.
C2_AtMostMaxResults ==
    pc = "returned" => Len(allListings) <= maxResults

\* C3: on normal completion the returned listings are the first
\* min(maxResults, k) first occurrences (by id) of the concatenated per-target
\* results, in that order and unsorted, each tagged with the name of the
\* earliest target that yielded its id.
C3_FirstOccurrencePrefix ==
    CompletedNormally =>
        /\ Len(extracted) = Len(targets)
        /\ Len(allListings) = Min(maxResults, Cardinality(FirstOccurrences))
        /\ \A o \in FirstOccurrences :
              Rank(o) <= maxResults =>
                  /\ allListings[Rank(o)].id = RecordAt(o).id
                  /\ allListings[Rank(o)].title = RecordAt(o).title
                  /\ allListings[Rank(o)].price = RecordAt(o).price
                  /\ allListings[Rank(o)].region = targets[o[1]].name
        /\ \A n \in 1..Len(allListings) :
              allListings[n].region = targets[EarliestTarget(allListings[n].id)].name

\* a normal completion where an id came from two targets and the distinct ids
\* exceed a positive maxResults
C3_Witness ==
    /\ CompletedNormally
    /\ maxResults > 0
    /\ Cardinality(FirstOccurrences) > maxResults
    /\ \E o, q \in Occurrences : o[1] < q[1] /\ RecordAt(o).id = RecordAt(q).id

\* what scrapeRegion's result for target t counts as: nothing when it failed
SurvivingYield(t) == IF extracted[t].failed THEN <<>> ELSE extracted[t].listings

RECURSIVE ConcatSurviving(_)
ConcatSurviving(n) ==
    IF n = 0 THEN <<>>
    ELSE ConcatSurviving(n - 1) \o TagRegion(SurvivingYield(n), targets[n].name)

\* the result of a run in which every failed target had no inventory
AsIfNoInventory ==
    Truncate(Deduplicate(ConcatSurviving(Len(extracted))), maxResults)

\* a run the progress callback did not end returns what it would return had
\* the failed targets had no inventory, after scraping every target
ResultAsIfNoInventory ==
    (pc = "returned" /\ progressFailure = "none") =>
        /\ CompletedNormally
        /\ Len(extracted) = Len(targets)
        /\ allListings = AsIfNoInventory

\* a failing scrapeRegion call hands the loop an empty result and changes
\* nothing else: the loop goes on as after a page without valid listings
FailureStepIsEmptyResult ==
    (/\ pc = "scrapeRegion"
     /\ Len(extracted') = Len(extracted) + 1
     /\ extracted'[Len(extracted')].failed)
    => /\ pc' = "afterScrape"
       /\ listings' = <<>>
       /\ UNCHANGED <<site, targets, maxResults, onProgress, idx, browser, allListings,
                      executionLogs, progressCalls, progressFailure>>

\* C7: a target whose navigation, container wait or extraction fails counts
\* as an empty result: the failing step leaves the loop where an empty page
\* leaves it, every later target is still scraped, and the run returns what
\* it would return had the failed targets had no inventory.
C7_TargetFailureIsolated ==
    []ResultAsIfNoInventory /\ [][FailureStepIsEmptyResult]_vars

\* the first target failed, the second one yielded listings that were returned
C7_Witness ==
    /\ pc = "returned"
    /\ progressFailure = "none"
    /\ Len(extracted) >= 2
    /\ extracted[1].failed
    /\ ~extracted[2].failed
    /\ allListings # <<>>
    /\ \A n \in 1..Len(allListings) : allListings[n].region = targets[2].name

\* C8: a failed target leaves a failure line in the returned logs and on the
\* progress channel, so its log entry and its progress line differ from
\* those of a target that rendered and had zero listings.
C8_FailureLineLogged ==
    (pc = "returned" /\ progressFailure = "none") =>
        \A t \in 1..Len(extracted) :
            extracted[t].failed =>
                /\ executionLogs[t] # TargetLog(targets[t], 0)
                /\ onProgress =>
                      [kind |-> "found", name |-> targets[t].name, found |-> 0]
                          \notin {progressCalls[i] : i \in 1..Len(progressCalls)}

\* C9: a failing onProgress call never aborts the pipeline: the call still
\* returns, every target was scraped, and the listings are those of the run
\* with a callback that does not fail.
C9_ProgressFailureHarmless ==
    (Settled /\ progressFailure # "none") =>
        /\ pc = "returned"
        /\ Len(extracted) = Len(targets)
        /\ allListings = AsIfNoInventory

\* C10: once scrape591 has settled, the browser it launched is closed.
C10_BrowserClosed ==
    Settled => browser # "open"

----------------------------------------------------------------------------
(* Properties of the list extractor and of price parsing *)

\* the item yields no record: its title is blank or its price parses to 0
Unusable(item) ==
    \/ Trim(QueryTitleEl(item).text) = <<>>
    \/ ParsePrice(item.priceText) = 0

\* C4: every record the extractor emits has a non-empty title and a price
\* above 0, and an element with an empty title or a parsed price of 0 yields
\* no record.
C4_EmittedRecordsValid ==
    evaluated =>
        /\ \A n \in 1..Len(results) :
              results[n].title # <<>> /\ results[n].price > 0
        /\ Len(results) <=
              Cardinality({i \in 1..Len(page) : ~Unusable(page[i])})

\* a page with one element that is dropped for its price alone and one that
\* is emitted
C4_Witness ==
    /\ evaluated
    /\ Len(results) > 0
    /\ \E i \in 1..Len(page) :
          /\ Trim(QueryTitleEl(page[i]).text) # <<>>
          /\ ParsePrice(page[i].priceText) = 0

\* the integer written by the decimal digits of a text, 0 when it has none
DigitsOf(text) == DigitsToNat(SelectSeq(text, IsDigit))

\* C5: the parsed price is the integer formed by the digits of the price
\* text, every other character ignored (the result of newParse in
\* test_price.js): "NT$12,000" and "12,000yuan/yue" give 12000, "" gives 0.
C5_PriceIsDigitsOfText ==
    parsed => price = DigitsOf(priceText) /\ price = NewParse(priceText)

----------------------------------------------------------------------------
(* Properties of buildSearchUrl *)

\* the pieces of s between the occurrences of sep
RECURSIVE SplitOn(_, _)
SplitOn(s, sep) ==
    IF \A i \in 1..Len(s) : s[i] # sep THEN <<s>>
    ELSE LET i == CHOOSE k \in 1..Len(s) :
                      s[k] = sep /\ \A m \in 1..(k - 1) : s[m] # sep
         IN  <<SubSeq(s, 1, i - 1)>> \o SplitOn(SubSeq(s, i + 1, Len(s)), sep)

\* percent codes a reader of the query decodes, with their characters
PercentCodes ==
    << << <<"%", "2", "C">>, "," >>,
       << <<"%", "2", "6">>, "&" >>,
       << <<"%", "3", "D">>, "=" >>,
       << <<"%", "2", "B">>, "+" >>,
       << <<"%", "2", "5">>, "%" >>,
       << <<"%", "E", "4", "%", "B", "9", "%", "B", "E">>, "gan" >>,
       << <<"%", "E", "6", "%", "B", "F", "%", "9", "5">>, "shi" >>,
       << <<"%", "E", "5", "%", "8", "8", "%", "8", "6">>, "fen" >>,
       << <<"%", "E", "9", "%", "9", "B", "%", "A", "2">>, "li" >> >>

IsPrefix(a, s) == Len(a) <= Len(s) /\ SubSeq(s, 1, Len(a)) = a

\* form-urlencoded decoding of one name or value
RECURSIVE FormDecode(_)
FormDecode(s) ==
    IF s = <<>> THEN <<>>
    ELSE IF Head(s) = "+" THEN <<" ">> \o FormDecode(Tail(s))
    ELSE LET hits == {k \in 1..Len(PercentCodes) : IsPrefix(PercentCodes[k][1], s)}
         IN  IF hits = {} THEN <<Head(s)>> \o FormDecode(Tail(s))
             ELSE LET k == CHOOSE h \in hits : TRUE
                  IN  <<PercentCodes[k][2]>>
                      \o FormDecode(SubSeq(s, Len(PercentCodes[k][1]) + 1, Len(s)))

\* the <<name, value>> pairs a reader of the query string sees
ParseQuery(q) ==
    IF q = <<>> THEN <<>>
    ELSE LET parts == SplitOn(q, "&")
         IN  [i \in 1..Len(parts) |->
                LET kv == SplitOn(parts[i], "=")
                IN  << FormDecode(kv[1]),
                       FormDecode(SubSeq(parts[i], Len(kv[1]) + 2, Len(parts[i]))) >>]

\* the query of a URL: what follows the base and the question mark
QueryOf(u) == SubSeq(u, 3, Len(u))

KeyRegion == <<"r", "e", "g", "i", "o", "n">>
KeyPrice == <<"p", "r", "i", "c", "e">>
KeyOther == <<"o", "t", "h", "e", "r">>
KeySection == <<"s", "e", "c", "t", "i", "o", "n">>
KeyKeywords == <<"k", "e", "y", "w", "o", "r", "d", "s">>

\* C6: the URL is the base URL with a query of exactly region=<region>,
\* price=<minRent>_<maxRent>, other=near_subway,cook, section=<section> iff a
\* section was supplied, keywords=<keywords> iff keywords is non-empty; for
\* region 1, section 3, rents 8000 and 12000 it contains region=1, section=3
\* and price=8000_12000.
C6_QueryIsExact ==
    built =>
        LET q == ParseQuery(QueryOf(url))
            keys == {q[i][1] : i \in 1..Len(q)}
            value(k) == q[CHOOSE i \in 1..Len(q) : q[i][1] = k][2]
        IN  /\ url[1] = BaseUrl /\ url[2] = "?"
            /\ Cardinality(keys) = Len(q)
            /\ keys = {KeyRegion, KeyPrice, KeyOther}
                      \cup (IF urlArgs.section # NoSection THEN {KeySection} ELSE {})
                      \cup (IF urlArgs.keywords # <<>> THEN {KeyKeywords} ELSE {})
            /\ value(KeyRegion) = ToText(urlArgs.region)
            /\ value(KeyPrice) =
                  ToText(urlArgs.minRent) \o <<"_">> \o ToText(urlArgs.maxRent)
            /\ value(KeyOther) = OtherFilter
            /\ urlArgs.section # NoSection => value(KeySection) = ToText(urlArgs.section)
            /\ urlArgs.keywords # <<>> => value(KeyKeywords) = urlArgs.keywords
            /\ (urlArgs.region = 1 /\ urlArgs.section = 3
                    /\ urlArgs.minRent = 8000 /\ urlArgs.maxRent = 12000) =>
                  /\ Contains(url, <<"r", "e", "g", "i", "o", "n", "=", "1">>)
                  /\ Contains(url, <<"s", "e", "c", "t", "i", "o", "n", "=", "3">>)
                  /\ Contains(url, <<"p", "r", "i", "c", "e", "=", "8", "0", "0", "0",
                                     "_", "1", "2", "0", "0", "0">>)

\* the URL of region 1, section 3, rents 8000-12000 and a keyword holding
\* the separators of a query string
C6_Witness ==
    /\ built
    /\ urlArgs.region = 1 /\ urlArgs.section = 3
    /\ urlArgs.minRent = 8000 /\ urlArgs.maxRent = 12000
    /\ urlArgs.keywords = <<"&", "=">>

----------------------------------------------------------------------------
(* getContactInfo: src/scraper.js:410-578                                   *)
(*                                                                          *)
(* More tokens: "zhuan" (U+8F49), "lian" (U+806F), "luo" (U+7D61),          *)
(* "you" (U+6709), "zhong4" (U+4EF2), "jie" (U+4ECB), "wu" (U+5C4B),        *)
(* "zhu" (U+4E3B), "fang" (U+623F), "dong" (U+6771), "fullcolon" (U+FF1A),  *)
(* and "tel:" for the four characters of a tel: link.                       *)

\* phone elements of a detail page drawn exhaustively
MaxPhoneEls == 2

\* text.replace(/\s/g, '')
StripSpaces(s) == SelectSeq(s, LAMBDA c : c # " ")

\* String.prototype.replace with a string pattern of one token: the first
\* occurrence only
RemoveFirst(s, c) ==
    IF \E i \in 1..Len(s) : s[i] = c
    THEN LET i == CHOOSE k \in 1..Len(s) :
                      s[k] = c /\ \A j \in 1..(k - 1) : s[j] # c
         IN  SubSeq(s, 1, i - 1) \o SubSeq(s, i + 1, Len(s))
    ELSE s

AllDigits(s) == \A i \in 1..Len(s) : IsDigit(s[i])

\* [-\s]
IsPhoneSep(c) == c = "-" \/ c = " "

\* line 467: /^0\d{2,3}[-\s]?\d{3,4}[-\s]?\d{3,4}(zhuan\d+)?$/.test(t)
PhoneShaped(t) ==
    \E a \in 2..3, s1 \in 0..1, b \in 3..4, s2 \in 0..1, c \in 3..4 :
        LET n == 1 + a + s1 + b + s2 + c
            ext == SubSeq(t, n + 1, Len(t))
        IN  /\ Len(t) >= n
            /\ t[1] = "0"
            /\ AllDigits(SubSeq(t, 2, 1 + a))
            /\ s1 = 1 => IsPhoneSep(t[2 + a])
            /\ AllDigits(SubSeq(t, 2 + a + s1, 1 + a + s1 + b))
            /\ s2 = 1 => IsPhoneSep(t[2 + a + s1 + b])
            /\ AllDigits(SubSeq(t, 2 + a + s1 + b + s2, n))
            /\ \/ ext = <<>>
               \/ Len(ext) >= 2 /\ ext[1] = "zhuan" /\ AllDigits(Tail(ext))

\* line 465: el.textContent?.trim() || el.getAttribute('href')?.replace('tel:', '') || ''
\* (an element without href has href <<>>)
PhoneElText(el) ==
    IF Trim(el.text) # <<>> THEN Trim(el.text) ELSE RemoveFirst(el.href, "tel:")

\* lines 462-473: the elements of the nine phone selectors, in selector
\* order and document order within a selector; the first whose text is
\* phone-shaped once its whitespace is removed gives the phone
RECURSIVE ExtractPhone(_)
ExtractPhone(els) ==
    IF els = <<>> THEN <<>>
    ELSE LET text == PhoneElText(Head(els))
         IN  IF text # <<>> /\ PhoneShaped(StripSpaces(text)) THEN text
             ELSE ExtractPhone(Tail(els))

RECURSIVE SkipSpaces(_, _)
SkipSpaces(t, i) == IF i <= Len(t) /\ t[i] = " " THEN SkipSpaces(t, i + 1) ELSE i

RECURSIVE RunEnd(_, _, _)
RunEnd(t, i, stop) ==
    IF i <= Len(t) /\ t[i] \notin stop THEN RunEnd(t, i + 1, stop) ELSE i

\* [:fullcolon]
Colons == {":", "fullcolon"}

\* the /i flag on the letters of LINE
UpperChar(c) ==
    IF c = "l" THEN "L" ELSE IF c = "i" THEN "I" ELSE IF c = "n" THEN "N"
    ELSE IF c = "e" THEN "E" ELSE c

Upper(t) == [i \in 1..Len(t) |-> UpperChar(t[i])]

\* The capture of  label \s* [:fullcolon] \s* (run)  tried at position i of
\* t, where run is the longest stretch of characters outside stop and u is
\* the text the label is compared with; <<>> when it does not match there.
LabelAt(t, u, i, label, stop) ==
    LET j == i + Len(label)
        k == SkipSpaces(t, j)
    IN  IF /\ j - 1 <= Len(t)
           /\ SubSeq(u, i, j - 1) = label
           /\ k <= Len(t)
           /\ t[k] \in Colons
        THEN LET m == SkipSpaces(t, k + 1)
             IN  SubSeq(t, m, RunEnd(t, m, stop) - 1)
        ELSE <<>>

\* String.prototype.match without the g flag: the leftmost match
FirstLabel(t, u, labels, stop) ==
    LET hits == {i \in 1..Len(t) :
                    \E l \in labels : LabelAt(t, u, i, l, stop) # <<>>}
    IN  IF hits = {} THEN <<>>
        ELSE LET i == CHOOSE h \in hits : \A g \in hits : h <= g
                 l == CHOOSE x \in labels : LabelAt(t, u, i, x, stop) # <<>>
             IN  LabelAt(t, u, i, l, stop)

\* line 498: pageText.match(/LINE\s*[:fullcolon]\s*(\S+)/i)
LineMatch(pageText) ==
    FirstLabel(pageText, Upper(pageText), {<<"L", "I", "N", "E">>}, {" "})

RoleLabels == {<<"zhong4", "jie">>, <<"wu", "zhu">>, <<"fang", "dong">>}

\* line 506: pageText.match(/(role)\s*[:fullcolon]\s*([^\s(<]+)/)
LandlordMatch(pageText) ==
    FirstLabel(pageText, pageText, RoleLabels, {" ", "(", "<"})

\* line 521: .replace(/^(role)\s*[:fullcolon]\s*/, '')
StripRole(t) ==
    LET ls == {l \in RoleLabels :
                  /\ Len(t) >= Len(l) /\ SubSeq(t, 1, Len(l)) = l
                  /\ SkipSpaces(t, Len(l) + 1) <= Len(t)
                  /\ t[SkipSpaces(t, Len(l) + 1)] \in Colons}
    IN  IF ls = {} THEN t
        ELSE LET l == CHOOSE x \in ls : TRUE
             IN  SubSeq(t, SkipSpaces(t, SkipSpaces(t, Len(l) + 1) + 1), Len(t))

\* 'LINE lian luo' and 'you LINE lian luo' of lines 487-488
LineContactLabel == <<"L", "I", "N", "E", "lian", "luo">>
HasLineContact == <<"you">> \o LineContactLabel

\* lines 475-503: the first line selector that has an element decides, even
\* when its text is empty; the page text is the fallback
ExtractLine(d) ==
    LET line == IF d.lineEls = <<>> THEN <<>>
                ELSE IF Contains(Head(d.lineEls), LineContactLabel)
                     THEN HasLineContact
                     ELSE Trim(Head(d.lineEls))
    IN  IF (line = <<>> \/ line = HasLineContact) /\ LineMatch(d.bodyText) # <<>>
        THEN LineMatch(d.bodyText)
        ELSE line

\* the loops of lines 518-524, 535-541 and 551-557: the elements found by
\* the selectors, in selector order; the first non-empty value stops the loop
RECURSIVE FirstNonEmpty(_)
FirstNonEmpty(values) ==
    IF values = <<>> THEN <<>>
    ELSE IF Head(values) # <<>> THEN Head(values)
         ELSE FirstNonEmpty(Tail(values))

\* lines 504-526
ExtractLandlordName(d) ==
    IF LandlordMatch(d.bodyText) # <<>> THEN LandlordMatch(d.bodyText)
    ELSE FirstNonEmpty([i \in 1..Len(d.nameEls) |-> StripRole(Trim(d.nameEls[i]))])

\* lines 527-542
ExtractTitle(d) ==
    FirstNonEmpty([i \in 1..Len(d.titleEls) |-> Trim(d.titleEls[i])])

\* .replace(/\s+/g, ' ')
RECURSIVE CollapseSpaces(_)
CollapseSpaces(t) ==
    IF t = <<>> THEN <<>>
    ELSE IF Head(t) = " "
         THEN <<" ">> \o CollapseSpaces(SubSeq(t, SkipSpaces(t, 1), Len(t)))
         ELSE <<Head(t)>> \o CollapseSpaces(Tail(t))

\* lines 543-564: the address selectors, then the first .breadcrumb or
\* .region-info element
ExtractAddress(d) ==
    LET address == FirstNonEmpty([i \in 1..Len(d.addressEls) |-> Trim(d.addressEls[i])])
    IN  IF address = <<>> /\ d.breadcrumb # <<>>
        THEN CollapseSpaces(Trim(Head(d.breadcrumb)))
        ELSE address

\* line 566: return { phone, line, landlordName, title, address }
ExtractContact(d) ==
    [phone |-> ExtractPhone(d.phoneEls), line |-> ExtractLine(d),
     landlordName |-> ExtractLandlordName(d), title |-> ExtractTitle(d),
     address |-> ExtractAddress(d)]

\* ---- the detail pages of the model

Mobile == <<"0">> \o NatToText(912345678)

PhoneEl(text, href) == [text |-> text, href |-> href]

\* what the phone selectors can find: a number, a number written with
\* spaces, a button whose label hides the number of its tel: link, a bare
\* tel: link, and an element with neither text nor link
PhoneEls ==
    { PhoneEl(Mobile, <<>>),
      PhoneEl(<<"0", "9", "1", "2", " ", "3", "4", "5", " ", "6", "7", "8">>, <<>>),
      PhoneEl(<<"C", "a", "l", "l">>, <<"tel:">> \o Mobile),
      PhoneEl(<<>>, <<"tel:">> \o Mobile \o <<"zhuan", "9">>),
      PhoneEl(<<>>, <<>>) }

\* document.body.innerText: nothing of interest, a LINE handle, a landlord
BodyTexts ==
    { <<>>,
      <<"l", "i", "n", "e", "fullcolon", "a", "b", " ", "x">>,
      <<"wu", "zhu", ":", " ", "W", "(", "x">> }

LineElTexts ==
    { <<>>, << <<"a", "1">> >>, << <<>>, <<"a", "1">> >>,
      << <<" ">> \o LineContactLabel >> }

\* the name, title, address and breadcrumb elements: none of them, or all
RestEls ==
    { [nameEls |-> <<>>, titleEls |-> <<>>, addressEls |-> <<>>, breadcrumb |-> <<>>],
      [nameEls |-> << <<"fang", "dong", ":", "W">> >>,
       titleEls |-> << <<" ">>, <<"T">> >>,
       addressEls |-> << <<>> >>,
       breadcrumb |-> << <<"A", " ", " ", "B">> >>] }

DetailPages ==
    { [phoneEls |-> p, lineEls |-> l, bodyText |-> b, nameEls |-> r.nameEls,
       titleEls |-> r.titleEls, addressEls |-> r.addressEls,
       breadcrumb |-> r.breadcrumb] :
         p \in SeqsUpTo(PhoneEls, MaxPhoneEls), l \in LineElTexts,
         b \in BodyTexts, r \in RestEls }

ContactFields == {"phone", "line", "landlordName", "title", "address"}

ContactInit ==
    /\ contactPc = "install"
    /\ contactBrowser = "none"
    /\ detail \in DetailPages
    /\ installed = FALSE
    /\ reveal = "none"
    /\ contactFailure = {}
    /\ contactInfo = <<>>

\* line 414 and lines 10-35: both steps of ensureBrowserInstalled sit in a
\* try/catch; it returns true or false and getContactInfo ignores which
EnsureBrowserInstalled ==
    /\ contactPc = "install"
    /\ installed' \in BOOLEAN
    /\ contactPc' = "launch"
    /\ UNCHANGED <<contactBrowser, detail, reveal, contactFailure, contactInfo>>
    /\ UNCHANGED <<scraperVars, commandVars, serverVars, restVars>>

\* lines 416-419: await chromium.launch(...), before the try block: when it
\* rejects, the promise of getContactInfo rejects
ContactLaunch ==
    /\ contactPc = "launch"
    /\ \/ contactBrowser' = "open" /\ contactPc' = "newContext"
             /\ UNCHANGED contactFailure
       \/ contactFailure' = contactFailure \cup {"launch"}
             /\ contactPc' = "rejected" /\ UNCHANGED contactBrowser
    /\ UNCHANGED <<detail, installed, reveal, contactInfo>>
    /\ UNCHANGED <<scraperVars, commandVars, serverVars, restVars>>

\* One awaited call of the try block (lines 421-431): it resolves and the
\* function moves on, or it rejects and control reaches the catch.
ContactTryStep(at, op, next) ==
    /\ contactPc = at
    /\ \/ contactPc' = next /\ UNCHANGED contactFailure
       \/ contactPc' = "catch" /\ contactFailure' = contactFailure \cup {op}
    /\ UNCHANGED <<contactBrowser, detail, installed, reveal, contactInfo>>
    /\ UNCHANGED <<scraperVars, commandVars, serverVars, restVars>>

\* lines 422-425: await browser.newContext(...)
ContactNewContext == ContactTryStep("newContext", "newContext", "newPage")

\* line 427: await context.newPage()
ContactNewPage == ContactTryStep("newPage", "newPage", "goto")

\* lines 428-431: await page.goto(url, ...) and the wait that follows
ContactGoto == ContactTryStep("goto", "goto", "reveal")

RevealOutcomes == {"absent", "clicked", "lookupFailed", "clickFailed"}

\* mutant of RevealPhone: a failed lookup or click is not caught
RevealPhoneUncaught ==
    /\ contactPc = "reveal"
    /\ \E r \in RevealOutcomes :
          /\ reveal' = r
          /\ contactPc' = IF r \in {"lookupFailed", "clickFailed"}
                          THEN "catch" ELSE "evaluate"
    /\ UNCHANGED <<contactBrowser, detail, installed, contactFailure, contactInfo>>
    /\ UNCHANGED <<scraperVars, commandVars, serverVars, restVars>>

\* lines 434-442: page.$ finds no control, or finds one that is clicked, or
\* page.$ rejects, or the click (or the wait after it) rejects; the inner
\* catch is empty
RevealPhone ==
    /\ contactPc = "reveal"
    /\ reveal' \in RevealOutcomes
    /\ contactPc' = "evaluate"
    /\ UNCHANGED <<contactBrowser, detail, installed, contactFailure, contactInfo>>
    /\ UNCHANGED <<scraperVars, commandVars, serverVars, restVars>>

\* lines 445-570: await page.evaluate(...) then return contactInfo
ContactEvaluate ==
    /\ contactPc = "evaluate"
    /\ \/ contactInfo' = ExtractContact(detail) /\ contactPc' = "finally"
             /\ UNCHANGED contactFailure
       \/ contactPc' = "catch" /\ contactFailure' = contactFailure \cup {"evaluate"}
             /\ UNCHANGED contactInfo
    /\ UNCHANGED <<contactBrowser, detail, installed, reveal>>
    /\ UNCHANGED <<scraperVars, commandVars, serverVars, restVars>>

\* lines 572-574: return { phone: '', line: '', landlordName: '' }
ContactCatch ==
    /\ contactPc = "catch"
    /\ contactInfo' = [phone |-> <<>>, line |-> <<>>, landlordName |-> <<>>]
    /\ contactPc' = "finally"
    /\ UNCHANGED <<contactBrowser, detail, installed, reveal, contactFailure>>
    /\ UNCHANGED <<scraperVars, commandVars, serverVars, restVars>>

\* lines 575-577: finally { await browser.close() }: the pending return
\* completes, or close rejects and its rejection replaces the return
ContactFinally ==
    /\ contactPc = "finally"
    /\ \/ contactBrowser' = "closed" /\ contactPc' = "resolved"
             /\ UNCHANGED contactFailure
       \/ contactFailure' = contactFailure \cup {"close"}
             /\ contactPc' = "rejected" /\ UNCHANGED contactBrowser
    /\ UNCHANGED <<detail, installed, reveal, contactInfo>>
    /\ UNCHANGED <<scraperVars, commandVars, serverVars, restVars>>

NextContact ==
    \/ EnsureBrowserInstalled
    \/ ContactLaunch
    \/ ContactNewContext
    \/ ContactNewPage
    \/ ContactGoto
    \/ RevealPhone
    \/ ContactEvaluate
    \/ ContactCatch
    \/ ContactFinally

InitContact == ScraperIdle /\ ContactInit /\ CommandIdle /\ ServerIdle /\ RestIdle

SpecContact == InitContact /\ [][NextContact]_vars

\* ---- claims about getContactInfo

\* C11: getContactInfo never throws: whichever of the installation check,
\* the launch, the context or page creation, the navigation, the extraction
\* and the closing of the browser fails, its promise does not reject.
C11_NeverRejects == contactPc # "rejected"

IsText(v) == v \in Seq(STRING)

\* C12: every record getContactInfo resolves with has the five fields phone,
\* line, landlordName, title and address, each a string, and all five are
\* empty when the navigation failed.
C12_FiveStringFields ==
    contactPc = "resolved" =>
        /\ DOMAIN contactInfo = ContactFields
        /\ \A f \in ContactFields : IsText(contactInfo[f])
        /\ "goto" \in contactFailure =>
              \A f \in ContactFields : contactInfo[f] = <<>>

\* the return statement of line 570 was reached
ExtractionRan ==
    /\ contactPc \in {"finally", "resolved", "rejected"}
    /\ contactFailure \subseteq {"close"}

NoPhoneShapedCandidate ==
    \A i \in 1..Len(detail.phoneEls) :
        ~PhoneShaped(StripSpaces(PhoneElText(detail.phoneEls[i])))

RevealStepReachesExtraction ==
    contactPc = "reveal" =>
        /\ contactPc' = "evaluate"
        /\ UNCHANGED <<contactInfo, contactFailure, detail>>

ExtractedRecordReturned ==
    /\ ExtractionRan =>
          /\ reveal \in RevealOutcomes
          /\ DOMAIN contactInfo = ContactFields
          /\ NoPhoneShapedCandidate => contactInfo.phone = <<>>
          /\ ~NoPhoneShapedCandidate => PhoneShaped(StripSpaces(contactInfo.phone))
    /\ (contactPc = "resolved" /\ reveal # "none" /\ "evaluate" \notin contactFailure) =>
          ExtractionRan

\* C13: whether the reveal-phone control is absent, its lookup fails or its
\* click fails, the step after it is the field extraction; the record the
\* extraction builds is the one returned, and its phone is "" when no phone
\* candidate has phone-shaped text.
C13_RevealNeverBlocksExtraction ==
    []ExtractedRecordReturned /\ [][RevealStepReachesExtraction]_vars

\* a call resolved after a reveal step that found no control or failed, on a
\* page whose phone candidates hold no phone-shaped text
C13_Witness ==
    /\ contactPc = "resolved"
    /\ reveal \in {"absent", "lookupFailed", "clickFailed"}
    /\ ExtractionRan
    /\ detail.phoneEls # <<>>
    /\ NoPhoneShapedCandidate
    /\ contactInfo.phone = <<>>

----------------------------------------------------------------------------
(* scrape591 on pages of distinct valid listings                            *)

\* listings on the largest page of distinct valid listings
MaxScenarioItems == 7

\* a rendered page of n .item elements, each a valid listing with its own id
ScenarioPage(n) ==
    [i \in 1..n |-> Item(TitleSelectors[1], <<"A">>, i, <<"9", ",", "0", "0", "0">>)]

ScenarioPages == {ScenarioPage(n) : n \in 1..MaxScenarioItems}

ScenarioInit ==
    /\ pc = "start"
    /\ targets \in {TargetList(n) : n \in 0..MaxTargets}
    /\ maxResults \in 0..(MaxScenarioItems + 1)
    /\ onProgress \in BOOLEAN
    /\ idx = 1
    /\ browser = "none"
    /\ listings = <<>>
    /\ allListings = <<>>
    /\ executionLogs = <<>>
    /\ progressCalls = <<>>
    /\ progressFailure = "none"
    /\ extracted = <<>>
    /\ site = ScenarioPages

InitScenario == ScenarioInit /\ ExtractIdle /\ PriceIdle /\ UrlIdle /\ OtherIdle

SpecScenario == InitScenario /\ [][Next]_vars

\* ---- claims about the control flow and the log of scrape591

\* the outer catch of line 395 took an exception
CaughtByOuterCatch ==
    \E i \in 1..Len(executionLogs) : executionLogs[i].kind = "error"

\* C14: an exception raised inside scrape591 outside the per-target failure
\* handling propagates: the call rejects, it does not return a result.
C14_FatalFailurePropagates == CaughtByOuterCatch => pc # "returned"

\* C15: on normal completion over targets t1..tk the log has k+1 entries,
\* entry i naming ti and the number of records extracted for ti before
\* deduplication, the last one stating the number of listings returned; one
\* target yielding 7 distinct valid listings with maxResults 5 returns 5
\* listings, logs "found 7" and ends with "total 5".
C15_LogShape ==
    CompletedNormally =>
        /\ Len(extracted) = Len(targets)
        /\ Len(executionLogs) = Len(targets) + 1
        /\ \A i \in 1..Len(targets) :
              /\ executionLogs[i].kind = "target"
              /\ executionLogs[i].name = targets[i].name
              /\ executionLogs[i].found = Len(extracted[i].listings)
        /\ executionLogs[Len(targets) + 1] =
              [kind |-> "total", count |-> Len(allListings)]
        /\ (/\ Len(targets) = 1
            /\ Cardinality({extracted[1].listings[j].id :
                               j \in 1..Len(extracted[1].listings)}) = 7
            /\ maxResults = 5) =>
              /\ Len(allListings) = 5
              /\ executionLogs[1].found = 7
              /\ executionLogs[2].count = 5

\* the scenario itself, and a run of two targets whose results overlap
C15_Witness ==
    /\ CompletedNormally
    /\ \/ /\ Len(targets) = 1 /\ maxResults = 5
          /\ Len(extracted[1].listings) = 7
          /\ Len(allListings) = 5
       \/ /\ Len(targets) = 2
          /\ Len(extracted[1].listings) = 7 /\ Len(extracted[2].listings) = 3
          /\ executionLogs[2].found = 3

\* the number a log entry states
Stated(entry) ==
    IF entry.kind = "target" THEN {entry.found}
    ELSE IF entry.kind = "total" THEN {entry.count}
    ELSE {}

\* the length of allListings when line 386 tests it, and the number of
\* records the targets yielded
TotalBeforeSlice == Cardinality(FirstOccurrences)
TotalExtracted == Cardinality(Occurrences)

\* C16: on normal completion the log states the total number of listings
\* before the truncation to maxResults as well as the number after it.
C16_BothTotalsLogged ==
    CompletedNormally =>
        /\ \E i \in 1..Len(executionLogs) :
              Stated(executionLogs[i]) \cap {TotalBeforeSlice, TotalExtracted} # {}
        /\ \E i \in 1..Len(executionLogs) :
              executionLogs[i] = [kind |-> "total", count |-> Len(allListings)]

\* the scrapes of this run that are under way
InFlight == IF pc = "scrapeRegion" THEN idx - Len(extracted) ELSE 0

OneAtATime ==
    /\ InFlight \in {0, 1}
    /\ pc \in {"loop", "scrapeRegion"} => Len(extracted) = idx - 1
    /\ pc \in {"afterScrape", "delay"} => Len(extracted) = idx

InOrderStep ==
    /\ (pc' = "scrapeRegion" /\ pc # "scrapeRegion") =>
          /\ pc = "loop" /\ idx' = idx /\ idx <= Len(targets)
          /\ Len(extracted) = idx - 1
    /\ idx' # idx =>
          /\ pc = "delay" /\ pc' = "loop" /\ idx' = idx + 1
          /\ Len(extracted) = idx

\* C17: the targets are scraped one after another in list order: the scrape
\* of target i+1 starts only after the scrape of target i has returned and
\* the delay that follows it has elapsed, so at most one scrape is under way.
C17_StrictlySequential == []OneAtATime /\ [][InOrderStep]_vars

\* the scrape of the second target under way, the first one done
C17_Witness ==
    /\ pc = "scrapeRegion"
    /\ idx = 2
    /\ Len(extracted) = 1

----------------------------------------------------------------------------
(* The webhook's region command: src/unnamed/part_002:293-371 and           *)
(* src/unnamed/part_004:455-530, over the district table of                 *)
(* src/scraper.js:46-92.                                                    *)
(*                                                                          *)
(* A district name is written one token per character, in pinyin; "qu" is   *)
(* U+5340, the character the handler removes and appends; "shi4" is U+5E02. *)

\* tokens of a region command drawn exhaustively
MaxRegionTokens == 2

\* SEARCH_CONFIG.sections: every district is entered under its short name
\* and under its short name followed by "qu"
SectionEntries ==
    { <<<<"zhong", "zheng">>, 1>>, <<<<"da", "tong">>, 2>>,
      <<<<"zhong", "shan">>, 3>>, <<<<"song", "shan">>, 4>>,
      <<<<"da", "an">>, 5>>, <<<<"wan", "hua">>, 6>>,
      <<<<"xin4", "yi">>, 7>>, <<<<"shih", "lin">>, 8>>,
      <<<<"bei", "tou">>, 9>>, <<<<"nei", "hu">>, 10>>,
      <<<<"nan", "gang">>, 11>>, <<<<"wen", "shan">>, 12>>,
      <<<<"ban", "qiao">>, 26>>, <<<<"san", "chong">>, 27>>,
      <<<<"zhong", "he">>, 29>>, <<<<"yong", "he">>, 37>>,
      <<<<"xin", "zhuang">>, 30>>, <<<<"xin", "dian">>, 32>>,
      <<<<"dan", "shui">>, 39>>, <<<<"tu", "cheng">>, 33>> }

SectionKeys ==
    {e[1] : e \in SectionEntries} \cup {e[1] \o <<"qu">> : e \in SectionEntries}

SectionOf(key) ==
    (CHOOSE e \in SectionEntries : key = e[1] \/ key = e[1] \o <<"qu">>)[2]

\* Property names a plain object inherits from Object.prototype: sections is
\* an object literal, so sections[name] finds them too.
ObjectPrototypeKeys ==
    { <<"c", "o", "n", "s", "t", "r", "u", "c", "t", "o", "r">>,
      <<"t", "o", "S", "t", "r", "i", "n", "g">>,
      <<"v", "a", "l", "u", "e", "O", "f">> }

\* the values a property read can give: a number, a function, undefined
Number(n) == [type |-> "number", n |-> n]
InheritedFunction == [type |-> "function"]
Undefined == [type |-> "undefined"]

\* sectionMap[key]
SectionMapGet(key) ==
    IF key \in SectionKeys THEN Number(SectionOf(key))
    ELSE IF key \in ObjectPrototypeKeys THEN InheritedFunction
    ELSE Undefined

TaipeiCity == <<"tai", "bei", "shi4">>
NewTaipeiCity == <<"xin", "bei", "shi4">>

\* const cleanArg = arg.replace(qu, '') + qu
CleanArg(arg) == RemoveFirst(arg, "qu") \o <<"qu">>

\* const cleanArgShort = arg.replace(qu, '')
CleanArgShort(arg) == RemoveFirst(arg, "qu")

\* let sectionId = sectionMap[cleanArg] || sectionMap[cleanArgShort]
SectionIdOf(arg) ==
    IF SectionMapGet(CleanArg(arg)) # Undefined THEN SectionMapGet(CleanArg(arg))
    ELSE SectionMapGet(CleanArgShort(arg))

\* the pushed descriptor: sectionId <= 20 ? 1 : 3 (false for a function)
TargetOf(arg) ==
    LET sectionId == SectionIdOf(arg)
        regionId == IF sectionId.type = "number" /\ sectionId.n <= 20 THEN 1 ELSE 3
        regionName == IF regionId = 1 THEN TaipeiCity ELSE NewTaipeiCity
    IN  [region |-> regionId, section |-> sectionId,
         name |-> regionName \o <<"-">> \o CleanArg(arg)]

\* the for-of loop over args: <<newTargets, unknownArgs>>
RECURSIVE ResolveArgs(_, _, _)
ResolveArgs(args, newTargets, unknownArgs) ==
    IF args = <<>> THEN <<newTargets, unknownArgs>>
    ELSE IF SectionIdOf(Head(args)) # Undefined
         THEN ResolveArgs(Tail(args), Append(newTargets, TargetOf(Head(args))),
                          unknownArgs)
         ELSE ResolveArgs(Tail(args), newTargets, Append(unknownArgs, Head(args)))

DistrictTarget(region, section, city, short) ==
    [region |-> region, section |-> Number(section),
     name |-> city \o <<"-">> \o short \o <<"qu">>]

\* the four default targets
DefaultTargets ==
    << DistrictTarget(1, 1, TaipeiCity, <<"zhong", "zheng">>),
       DistrictTarget(1, 3, TaipeiCity, <<"zhong", "shan">>),
       DistrictTarget(1, 2, TaipeiCity, <<"da", "tong">>),
       DistrictTarget(3, 37, NewTaipeiCity, <<"yong", "he">>) >>

\* { region, name } of a whole city: no section
CityTarget(region, city) ==
    [region |-> region, section |-> Undefined, name |-> city \o <<"quan", "qu">>]

KeywordDefault == <<"yu", "she">>
KeywordAll == {<<"quan">>, <<"quan", "bu">>}
KeywordTaipei == <<"tai", "bei">>
KeywordNewTaipei == <<"xin", "bei">>

KeywordTokens == {KeywordDefault, KeywordTaipei, KeywordNewTaipei} \cup KeywordAll

\* tokens that are not keywords: short names, a name with "qu", a name the
\* table does not hold, and a word that is no district at all
DistrictTokens ==
    { <<"zhong", "shan">>, <<"dan", "shui">>, <<"yong", "he", "qu">>,
      <<"tian", "mu">>,
      <<"c", "o", "n", "s", "t", "r", "u", "c", "t", "o", "r">> }

\* fullArgs.split(/\s+/), and the empty fullArgs
RegionArgs ==
    {<<>>} \cup
    { <<first>> \o rest :
        first \in KeywordTokens \cup DistrictTokens,
        rest \in SeqsUpTo(DistrictTokens, MaxRegionTokens - 1) }

RegionInit ==
    /\ searchConfig = [targets |-> DefaultTargets, minRent |-> DefaultMinRent,
                       maxRent |-> DefaultMaxRent]
    /\ command = [kind |-> "none"]
    /\ scrapeCall = [kind |-> "none"]

\* what one region command stores and replies: <<targets, newTargets,
\* unknownArgs, reply>>
RegionOutcome(args) ==
    LET resolved == ResolveArgs(args, <<>>, <<>>)
        keep == searchConfig.targets
    IN  IF args = <<>> THEN <<keep, <<>>, <<>>, "help">>
        ELSE IF args[1] = KeywordDefault THEN <<DefaultTargets, <<>>, <<>>, "default">>
        ELSE IF args[1] \in KeywordAll
             THEN << <<CityTarget(1, TaipeiCity), CityTarget(3, NewTaipeiCity)>>,
                     <<>>, <<>>, "all" >>
        ELSE IF args[1] = KeywordTaipei
             THEN << <<CityTarget(1, TaipeiCity)>>, <<>>, <<>>, "taipei" >>
        ELSE IF args[1] = KeywordNewTaipei
             THEN << <<CityTarget(3, NewTaipeiCity)>>, <<>>, <<>>, "newTaipei" >>
        ELSE IF resolved[1] # <<>>
             THEN <<resolved[1], resolved[1], resolved[2], "set">>
        ELSE <<keep, resolved[1], resolved[2], "notFound">>

\* the handler of a text starting with the region keyword
RegionCommand ==
    \E args \in RegionArgs :
        LET out == RegionOutcome(args)
        IN  /\ searchConfig' = [searchConfig EXCEPT !.targets = out[1]]
            /\ command' = [kind |-> "region", args |-> args, newTargets |-> out[2],
                           unknownArgs |-> out[3], reply |-> out[4]]
            /\ UNCHANGED scrapeCall
            /\ UNCHANGED <<scraperVars, contactVars, serverVars, restVars>>

InitRegion == ScraperIdle /\ ContactIdle /\ RegionInit /\ ServerIdle /\ RestIdle

SpecRegion == InitRegion /\ [][RegionCommand]_vars

\* ---- claim about the region command

\* arg names a district of the table, with or without its "qu"
InTable(arg) == CleanArg(arg) \in SectionKeys \/ CleanArgShort(arg) \in SectionKeys

\* Taipei's districts are the sections 1..12 of the table
DescriptorOf(arg) ==
    LET id == IF CleanArg(arg) \in SectionKeys THEN SectionOf(CleanArg(arg))
              ELSE SectionOf(CleanArgShort(arg))
    IN  [region |-> IF id \in 1..12 THEN 1 ELSE 3,
         section |-> Number(id),
         name |-> (IF id \in 1..12 THEN TaipeiCity ELSE NewTaipeiCity)
                     \o <<"-">> \o CleanArg(arg)]

\* C18: for a region command whose first token is no keyword, the new target
\* list is the descriptors of the tokens found in the district table, in
\* token order, the tokens reported unknown are exactly those not found, and
\* an unknown token does not stop the others from being resolved.
C18_ResolvesExactlyKnownTokens ==
    (command.kind = "region" /\ command.args # <<>>
        /\ command.args[1] \notin KeywordTokens) =>
        LET found == SelectSeq(command.args, InTable)
            missing == SelectSeq(command.args, LAMBDA a : ~InTable(a))
        IN  /\ command.newTargets = [i \in 1..Len(found) |-> DescriptorOf(found[i])]
            /\ command.unknownArgs = missing
            /\ found # <<>> => searchConfig.targets = command.newTargets

----------------------------------------------------------------------------
(* The webhook's rent command: src/unnamed/part_002:270-291 (the same       *)
(* validation is src/unnamed/part_004:429-453), and the crawl that reads    *)
(* the stored bounds, src/unnamed/part_002:81-87.                           *)
(* "zu" "jin" are U+79DF U+91D1, the keyword of the command.                *)

\* min >= 1000 && max <= 100000
MinRentLimit == 1000
MaxRentLimit == 100000

\* the maximal runs of digits of a text, left to right
RECURSIVE DigitRuns(_)
DigitRuns(t) ==
    IF t = <<>> THEN <<>>
    ELSE IF IsDigit(Head(t))
         THEN <<DigitPrefix(t)>> \o DigitRuns(SubSeq(t, Len(DigitPrefix(t)) + 1, Len(t)))
         ELSE DigitRuns(Tail(t))

\* text.match(/(\d+)[^\d]+(\d+)/): the leftmost match takes the first run of
\* digits whole, the characters up to the next digit, and the next run
\* whole; null (<<>>) when the text has fewer than two runs
RentMatch(text) ==
    IF Len(DigitRuns(text)) >= 2
    THEN <<DigitRuns(text)[1], DigitRuns(text)[2]>>
    ELSE <<>>

RentKeyword == <<"zu", "jin">>

\* the numbers a user may type, around the limits
RentNumbers ==
    { NatToText(n) : n \in {999, 1000, 8000, 100000, 100001} }
    \cup { <<"0">> \o NatToText(8000) }

\* the texts that start with the keyword: two numbers with a separator, one
\* number, no number, words, and three numbers
RentTexts ==
    { RentKeyword \o <<" ">> \o a \o <<"-">> \o b : a \in RentNumbers, b \in RentNumbers }
    \cup { RentKeyword \o <<" ">> \o a : a \in RentNumbers }
    \cup { RentKeyword, RentKeyword \o <<" ", "a", "-", "b">>,
           RentKeyword \o NatToText(8000) \o <<" ", "~", " ">> \o NatToText(12000)
               \o <<"yuan", "/", "yue">> \o NatToText(1) }

RentInit ==
    /\ searchConfig = [targets |-> DefaultTargets, minRent |-> DefaultMinRent,
                       maxRent |-> DefaultMaxRent]
    /\ command = [kind |-> "none"]
    /\ scrapeCall = [kind |-> "none"]

\* mutant of RentCommand: the lower limit is not tested
RentCommandNoLowerLimit ==
    \E text \in RentTexts :
        LET match == RentMatch(text)
            min == ParseInt(match[1]).val
            max == ParseInt(match[2]).val
        IN  /\ IF match # <<>> /\ min < max /\ max <= MaxRentLimit
               THEN /\ searchConfig' = [searchConfig EXCEPT !.minRent = min,
                                                            !.maxRent = max]
                    /\ command' = [kind |-> "rent", text |-> text, reply |-> "updated"]
               ELSE /\ UNCHANGED searchConfig
                    /\ command' = [kind |-> "rent", text |-> text, reply |-> "invalid"]
            /\ UNCHANGED scrapeCall
            /\ UNCHANGED <<scraperVars, contactVars, serverVars, restVars>>

\* the handler of a text starting with the rent keyword
RentCommand ==
    \E text \in RentTexts :
        LET match == RentMatch(text)
            min == ParseInt(match[1]).val
            max == ParseInt(match[2]).val
        IN  /\ IF match = <<>>
               THEN /\ UNCHANGED searchConfig
                    /\ command' = [kind |-> "rent", text |-> text, reply |-> "format"]
               ELSE IF min < max /\ min >= MinRentLimit /\ max <= MaxRentLimit
               THEN /\ searchConfig' = [searchConfig EXCEPT !.minRent = min,
                                                            !.maxRent = max]
                    /\ command' = [kind |-> "rent", text |-> text, reply |-> "updated"]
               ELSE /\ UNCHANGED searchConfig
                    /\ command' = [kind |-> "rent", text |-> text, reply |-> "invalid"]
            /\ UNCHANGED scrapeCall
            /\ UNCHANGED <<scraperVars, contactVars, serverVars, restVars>>

\* runCrawlTask hands the stored bounds to scrape591
CrawlWithConfig ==
    /\ scrapeCall' = [kind |-> "scrape591", minRent |-> searchConfig.minRent,
                      maxRent |-> searchConfig.maxRent]
    /\ UNCHANGED <<searchConfig, command>>
    /\ UNCHANGED <<scraperVars, contactVars, serverVars, restVars>>

NextRent == RentCommand \/ CrawlWithConfig

InitRent == ScraperIdle /\ ContactIdle /\ RentInit /\ ServerIdle /\ RestIdle

SpecRent == InitRent /\ [][NextRent]_vars

\* ---- claim about the rent command

RentBoundsValid ==
    /\ MinRentLimit <= searchConfig.minRent
    /\ searchConfig.minRent < searchConfig.maxRent
    /\ searchConfig.maxRent <= MaxRentLimit
    /\ scrapeCall.kind = "scrape591" => scrapeCall.minRent < scrapeCall.maxRent

\* the two numbers of a rent text, <<>> when it has fewer than two
NumbersOf(text) ==
    IF Len(DigitRuns(text)) < 2 THEN <<>>
    ELSE <<DigitsToNat(DigitRuns(text)[1]), DigitsToNat(DigitRuns(text)[2])>>

FailsValidation(text) ==
    \/ NumbersOf(text) = <<>>
    \/ NumbersOf(text)[1] >= NumbersOf(text)[2]
    \/ NumbersOf(text)[1] < 1000
    \/ NumbersOf(text)[2] > 100000

RentStep ==
    (command' # command /\ command'.kind = "rent") =>
        IF FailsValidation(command'.text)
        THEN searchConfig' = searchConfig /\ command'.reply # "updated"
        ELSE /\ searchConfig'.minRent = NumbersOf(command'.text)[1]
             /\ searchConfig'.maxRent = NumbersOf(command'.text)[2]
             /\ command'.reply = "updated"

----------------------------------------------------------------------------
(* The server's crawl tasks: src/unnamed/part_004:85-277 (runCrawlTask,     *)
(* runCrawlTaskForUser), started by the cron schedule (620-625), by         *)
(* GET /crawl (302-305) and by the chat search command (531-573).           *)
(* Node runs one callback at a time: an action is the code between two      *)
(* awaits of one task.                                                      *)

\* crawl requests the server receives
MaxTasks == 2

Task(kind, at) == [kind |-> kind, pc |-> at]

\* tasks[t] is a runCrawlTask call (cron or GET /crawl), not a user search
IsCrawlTask(t) == tasks[t].kind \in {"cron", "crawl"}

ServerInit == isCrawling = FALSE /\ tasks = <<>>

\* runCrawlTask without the test of isCrawling
StartCrawlTaskUnchecked(kind) ==
    /\ Len(tasks) < MaxTasks
    /\ isCrawling' = TRUE
    /\ tasks' = Append(tasks, Task(kind, "scrape591"))
    /\ UNCHANGED <<scraperVars, contactVars, commandVars, restVars>>

\* runCrawlTask up to its first await: the test of isCrawling, its setting,
\* and the call of scrape591
StartCrawlTask(kind) ==
    /\ Len(tasks) < MaxTasks
    /\ IF isCrawling
       THEN /\ tasks' = Append(tasks, Task(kind, "running"))
            /\ UNCHANGED isCrawling
       ELSE /\ isCrawling' = TRUE
            /\ tasks' = Append(tasks, Task(kind, "scrape591"))
    /\ UNCHANGED <<scraperVars, contactVars, commandVars, restVars>>

\* cron.schedule(cronSchedule, () => { runCrawlTask() })
CronTrigger == StartCrawlTask("cron")

\* app.get('/crawl', ...): runCrawlTask(true)
GetCrawl == StartCrawlTask("crawl")

\* The chat search command: startLoading, getUser and replyText are awaited
\* (a rejection ends the request in the webhook's catch), then
\* runCrawlTaskForUser is called, which calls scrape591 without reading
\* isCrawling
ChatSearch ==
    /\ Len(tasks) < MaxTasks
    /\ \/ tasks' = Append(tasks, Task("search", "scrape591"))
       \/ tasks' = Append(tasks, Task("search", "webhookError"))
    /\ UNCHANGED isCrawling
    /\ UNCHANGED <<scraperVars, contactVars, commandVars, restVars>>

\* An awaited call of task t settles: when it resolves the task goes on to
\* next; when it rejects, control reaches the catch, where runCrawlTask
\* first sets isCrawling = false, and the error notice is sent.
AwaitSettles(t, at, next) ==
    /\ tasks[t].pc = at
    /\ \/ /\ tasks' = [tasks EXCEPT ![t].pc = next]
          /\ UNCHANGED isCrawling
       \/ /\ tasks' = [tasks EXCEPT ![t].pc = "errorNotice"]
          /\ isCrawling' = IF IsCrawlTask(t) THEN FALSE ELSE isCrawling
    /\ UNCHANGED <<scraperVars, contactVars, commandVars, restVars>>

\* await scrape591({...})
ScrapeSettles == \E t \in 1..Len(tasks) : AwaitSettles(t, "scrape591", "saveListings")

\* await saveListings(listings)
SaveSettles == \E t \in 1..Len(tasks) : AwaitSettles(t, "saveListings", "notify")

\* NotifySettles with a catch block that forgets isCrawling = false
NotifySettlesNoReset ==
    \E t \in 1..Len(tasks) :
        /\ tasks[t].pc = "notify"
        /\ \/ /\ tasks' = [tasks EXCEPT ![t].pc = "success"]
              /\ isCrawling' = IF IsCrawlTask(t) THEN FALSE ELSE isCrawling
           \/ /\ tasks' = [tasks EXCEPT ![t].pc = "errorNotice"]
              /\ UNCHANGED isCrawling
        /\ UNCHANGED <<scraperVars, contactVars, commandVars, restVars>>

\* the notifications of the try block, then isCrawling = false and the
\* return of runCrawlTask
NotifySettles ==
    \E t \in 1..Len(tasks) :
        /\ tasks[t].pc = "notify"
        /\ \/ /\ tasks' = [tasks EXCEPT ![t].pc = "success"]
              /\ isCrawling' = IF IsCrawlTask(t) THEN FALSE ELSE isCrawling
           \/ /\ tasks' = [tasks EXCEPT ![t].pc = "errorNotice"]
              /\ isCrawling' = IF IsCrawlTask(t) THEN FALSE ELSE isCrawling
        /\ UNCHANGED <<scraperVars, contactVars, commandVars, restVars>>

\* the error notice of the catch block sits in its own try/catch
ErrorNoticeSettles ==
    \E t \in 1..Len(tasks) :
        /\ tasks[t].pc = "errorNotice"
        /\ tasks' = [tasks EXCEPT ![t].pc = "error"]
        /\ UNCHANGED isCrawling
        /\ UNCHANGED <<scraperVars, contactVars, commandVars, restVars>>

NextServer ==
    \/ CronTrigger
    \/ GetCrawl
    \/ ChatSearch
    \/ ScrapeSettles
    \/ SaveSettles
    \/ NotifySettles
    \/ ErrorNoticeSettles

InitServer == ScraperIdle /\ ContactIdle /\ CommandIdle /\ ServerInit /\ RestIdle

SpecServer == InitServer /\ [][NextServer]_vars

\* ---- claim about overlapping crawls

\* the tasks whose scrape591 call is in progress
Scraping == {t \in 1..Len(tasks) : tasks[t].pc = "scrape591"}

\* C20: whatever the interleaving of cron triggers, GET /crawl requests and
\* chat search commands, at most one scrape591 run is in progress.
C20_OneScrapeAtATime == Cardinality(Scraping) <= 1

\* ---- claims about the busy flag

\* the runCrawlTask calls that passed the test of isCrawling and have not
\* returned yet
InProgress ==
    {t \in 1..Len(tasks) :
        /\ IsCrawlTask(t)
        /\ tasks[t].pc \in {"scrape591", "saveListings", "notify", "errorNotice"}}

\* the runCrawlTask calls between isCrawling = true and isCrawling = false
FlagHolders ==
    {t \in 1..Len(tasks) :
        /\ IsCrawlTask(t)
        /\ tasks[t].pc \in {"scrape591", "saveListings", "notify"}}

\* a step that is a new call of runCrawlTask
NewCrawlCall ==
    /\ Len(tasks') = Len(tasks) + 1
    /\ tasks'[Len(tasks')].kind \in {"cron", "crawl"}

\* a call that returned { status: 'running' } does nothing more
RunningIsFinal ==
    \A t \in 1..Len(tasks) : tasks[t].pc = "running" => tasks'[t].pc = "running"

\* C21 as stated: a call of runCrawlTask made while another call has not
\* returned yet returns { status: 'running' } and does nothing more.
C21_RunningWhileInProgress ==
    [][/\ RunningIsFinal
       /\ (NewCrawlCall /\ InProgress # {}) => tasks'[Len(tasks')].pc = "running"]_vars

\* C21 amended: a call of runCrawlTask made while another call is between
\* its isCrawling = true and its isCrawling = false returns
\* { status: 'running' } and does nothing more, any other call passes the
\* test and starts scrape591 (also while an earlier call is still sending
\* the error notice of its catch block); the test and the setting are one
\* step, so at most one call is between them at any time.
C21_RunningWhileFlagHeld ==
    /\ [](Cardinality(FlagHolders) <= 1)
    /\ [][/\ RunningIsFinal
          /\ NewCrawlCall =>
                tasks'[Len(tasks')].pc =
                    IF FlagHolders # {} THEN "running" ELSE "scrape591"]_vars

\* a second call was turned away while the first one was saving
C21_Witness ==
    /\ Len(tasks) = 2
    /\ tasks[1] = Task("cron", "saveListings")
    /\ tasks[2] = Task("crawl", "running")

----------------------------------------------------------------------------
(* saveListings and getExistingIds: src/sheets.js:385-457.  The server's    *)
(* crawl tasks call saveListings (src/unnamed/part_004:134, 239); a search  *)
(* task is not held back by isCrawling, so two calls can be in progress.    *)
(* A listing is written by its id, the value of column A.                   *)

\* saveListings calls
MaxSaves == 2

\* the header cell written by ensureSheetExists
HeaderCell == "ID"

\* the listing ids of the model
ListingIds == {"101", "102"}

\* the lists a scrape591 run can hand over: its ids are pairwise different
ListingLists ==
    {<<>>} \cup {<<a>> : a \in ListingIds}
           \cup {p \in ListingIds \X ListingIds : p[1] # p[2]}

\* the sheet before the first call: the header row and the rows of earlier runs
SheetInit ==
    /\ sheet \in {<<HeaderCell>>, <<HeaderCell, "101">>}
    /\ saves = <<>>

\* new Set(values.flat().filter(id => id && id !== 'ID'))
IdsOfColumn(values) ==
    {values[i] : i \in {j \in 1..Len(values) : values[j] # "" /\ values[j] # HeaderCell}}

\* listings.filter(l => !existingIds.has(l.id))
FilterNew(ls, existingIds) ==
    LET Keep(id) == id \notin existingIds IN SelectSeq(ls, Keep)

\* saveListings(listings) up to the request of getExistingIds: initSheets
\* may reject, ensureSheetExists catches its own errors
SaveListingsCall ==
    /\ Len(saves) < MaxSaves
    /\ \E ls \in ListingLists, ok \in BOOLEAN :
          saves' = Append(saves,
                     [pc |-> IF ok THEN "getExistingIds" ELSE "rejected",
                      listings |-> ls, stored |-> {}, new |-> <<>>,
                      appended |-> <<>>, saved |-> 0])
    /\ UNCHANGED sheet
    /\ UNCHANGED <<scraperVars, contactVars, commandVars, serverVars, scrollVars, runVars>>

\* getExistingIds answers (the column as it is now, or the empty set of its
\* catch block when values.get rejected), then the filter and the early
\* return of saveListings; stored keeps what the column held at this read
GetExistingIds(t) ==
    /\ saves[t].pc = "getExistingIds"
    /\ \E existingIds \in {IdsOfColumn(sheet), {}} :
          LET newListings == FilterNew(saves[t].listings, existingIds) IN
          saves' = [saves EXCEPT
                       ![t].stored = IdsOfColumn(sheet),
                       ![t].new = newListings,
                       ![t].pc = IF newListings = <<>> THEN "returned"
                                                       ELSE "append"]
    /\ UNCHANGED sheet
    /\ UNCHANGED <<scraperVars, contactVars, commandVars, serverVars, scrollVars, runVars>>

\* sheets.spreadsheets.values.append settles: the rows are added and
\* saveListings returns { saved, new }, or the request rejects
AppendRows(t) ==
    /\ saves[t].pc = "append"
    /\ \/ /\ sheet' = sheet \o saves[t].new
          /\ saves' = [saves EXCEPT ![t].pc = "returned",
                                    ![t].appended = saves[t].new,
                                    ![t].saved = Len(saves[t].new)]
       \/ /\ saves' = [saves EXCEPT ![t].pc = "rejected", ![t].new = <<>>]
          /\ UNCHANGED sheet
    /\ UNCHANGED <<scraperVars, contactVars, commandVars, serverVars, scrollVars, runVars>>

NextSheets ==
    \/ SaveListingsCall
    \/ \E t \in 1..Len(saves) : GetExistingIds(t)
    \/ \E t \in 1..Len(saves) : AppendRows(t)

InitSheets ==
    /\ ScraperIdle /\ ContactIdle /\ CommandIdle /\ ServerIdle
    /\ SheetInit /\ ScrollIdle /\ RunIdle

SpecSheets == InitSheets /\ [][NextSheets]_vars

\* ---- claims about saveListings

\* the listings of ls whose id the column did not hold
NotStored(ls, stored) == FilterNew(ls, stored)

\* C22: a saveListings call that returned reported as new, and appended as
\* rows, exactly the listings whose id the sheet did not hold when the call
\* read it; so a second call with the same list and no other writer in
\* between reports saved = 0, an empty new list, and appends nothing.
C22_SavesExactlyUnstored ==
    \A t \in 1..Len(saves) :
        saves[t].pc = "returned" =>
            /\ saves[t].new = NotStored(saves[t].listings, saves[t].stored)
            /\ saves[t].appended = saves[t].new
            /\ saves[t].saved = Len(saves[t].new)

\* two rows of the sheet hold the same id
DuplicateRows ==
    \E i, j \in 1..Len(sheet) : i < j /\ sheet[i] = sheet[j]

\* C29: whatever the interleaving of the saveListings calls, and also when
\* the read of the existing ids fails, no two rows hold the same listing id.
C29_NoDuplicateRows == ~DuplicateRows

----------------------------------------------------------------------------
(* Claim about the title selectors of the list extractor                    *)
(* (src/scraper.js:148-152), checked on SpecExtract.                        *)

\* the candidates of an item matching selector k that yield a title
YieldingCands(item, k) ==
    LET Yields(c) == c.sel = TitleSelectors[k] /\ Trim(c.text) # <<>>
    IN  SelectSeq(item.cands, Yields)

\* the element a priority list with fall-through would take: the first
\* selector, in priority order, with a candidate of non-empty title
PriorityTitleEl(item) ==
    IF YieldingCands(item, 1) # <<>>
    THEN [found |-> TRUE, text |-> YieldingCands(item, 1)[1].text,
          href |-> YieldingCands(item, 1)[1].href]
    ELSE IF YieldingCands(item, 2) # <<>>
    THEN [found |-> TRUE, text |-> YieldingCands(item, 2)[1].text,
          href |-> YieldingCands(item, 2)[1].href]
    ELSE [found |-> FALSE, text |-> <<>>, href |-> 0]

PriorityParseItem(item, index) ==
    LET titleEl == PriorityTitleEl(item)
    IN  [id |-> ListingId(titleEl.href, index),
         title |-> Trim(titleEl.text),
         price |-> ParsePrice(item.priceText)]

\* C23: the extractor takes title and detail link of every item from the
\* first selector candidate, in priority order, that yields a non-empty
\* title, whatever the order of the candidates in the DOM.
C23_TitleByPriority ==
    evaluated =>
        results = SelectSeq([i \in 1..Len(page) |->
                                PriorityParseItem(page[i], i - 1)], Emitted)

----------------------------------------------------------------------------
(* Claim about the selector chains of getContactInfo                        *)
(* (src/scraper.js:451-564), checked on SpecContact.                        *)

\* what one LINE element yields: the label of a LINE button, or its text
LineElValue(el) ==
    IF Contains(el, LineContactLabel) THEN HasLineContact ELSE Trim(el)

\* the messaging handle of a chain with fall-through: the first LINE
\* element that yields a value; a real handle is final, a button label or
\* nothing gives way to the LINE pattern of the page text
ChainedLine(d) ==
    LET line == FirstNonEmpty([i \in 1..Len(d.lineEls) |-> LineElValue(d.lineEls[i])])
    IN  IF (line = <<>> \/ line = HasLineContact) /\ LineMatch(d.bodyText) # <<>>
        THEN LineMatch(d.bodyText)
        ELSE line

\* a getContactInfo call returned the record its extraction built
ExtractionReturned == contactPc = "resolved" /\ contactFailure = {}

\* C24: every field of the returned record is the value of the first
\* candidate of its chain that yields one: an element with empty text is
\* skipped for the later candidates; the messaging handle of a dedicated
\* element is preferred over the LINE pattern of the page text.
C24_FirstYieldingCandidate ==
    ExtractionReturned =>
        /\ contactInfo.phone = ExtractPhone(detail.phoneEls)
        /\ contactInfo.line = ChainedLine(detail)
        /\ contactInfo.landlordName = ExtractLandlordName(detail)
        /\ contactInfo.title =
              FirstNonEmpty([i \in 1..Len(detail.titleEls) |-> Trim(detail.titleEls[i])])
        /\ contactInfo.address = ExtractAddress(detail)

----------------------------------------------------------------------------
(* Claim about the listing ids of one scrape591 run                         *)
(* (src/scraper.js:148-152, 371-380), checked on Spec.                      *)

\* the records the extractor emitted in this run: <<target, position>>
EmittedRecords ==
    {p \in (1..Len(extracted)) \X (1..MaxItems) :
        ~extracted[p[1]].failed /\ p[2] <= Len(extracted[p[1]].listings)}

IdOfRecord(p) == extracted[p[1]].listings[p[2]].id

\* C25: two records emitted in one run for two different listing elements
\* carry the same id only if the id is the numeric segment of their detail
\* links; the placeholder ids unknown-<index> are pairwise different, so
\* deduplication removes no record of another listing.
C25_IdsUniqueWithinRun ==
    \A p \in EmittedRecords, q \in EmittedRecords :
        (p # q /\ IdOfRecord(p) = IdOfRecord(q)) => IdOfRecord(p).kind = "numeric"

----------------------------------------------------------------------------
(* Claim about a region command without any district                        *)
(* (src/unnamed/part_002:293-371), checked on SpecRegion.                   *)

\* the step handled a command, none of whose tokens names a district
NoDistrictCommand ==
    /\ command'.kind = "region"
    /\ command'.args # <<>>
    /\ command'.args[1] \notin KeywordTokens
    /\ \A i \in 1..Len(command'.args) : ~InTable(command'.args[i])

\* C30: a region command none of whose tokens resolves to a district leaves
\* the stored target list as it was and replies with the unknown tokens;
\* the stored list is never empty.
C30_UnresolvedKeepsTargets ==
    /\ [](searchConfig.targets # <<>>)
    /\ [][NoDistrictCommand =>
            /\ searchConfig'.targets = searchConfig.targets
            /\ command'.reply = "notFound"
            /\ command'.unknownArgs = command'.args]_vars

----------------------------------------------------------------------------
(* autoScroll: src/scraper.js:224-244.  The interval callback runs every    *)
(* 200 ms until it clears its timer; between two callbacks the page may     *)
(* load more content and grow.                                              *)

\* const distance = 500
Distance == 500

\* the cap of `totalHeight > 3000`
ScrollCap == 3000

\* heights of the document, from an empty body to an endless feed
PageHeights == {0, 700, 1600, 2400, 3300, 4500, 9000, 100000}

\* heights of the viewport
InnerHeights == {600, 900, 1080}

\* autoScroll was called: page.evaluate registered the interval
ScrollInit ==
    /\ scrollPc = "interval"
    /\ totalHeight = 0
    /\ increments = 0
    /\ scrollHeight \in PageHeights
    /\ innerHeight \in InnerHeights

\* the interval callback without the cap on totalHeight
TimerTickUncapped ==
    /\ scrollPc = "interval"
    /\ totalHeight' = totalHeight + Distance
    /\ increments' = increments + 1
    /\ scrollPc' = IF totalHeight' >= scrollHeight - innerHeight
                   THEN "settle" ELSE "interval"
    /\ UNCHANGED <<scrollHeight, innerHeight>>
    /\ UNCHANGED <<scraperVars, contactVars, commandVars, serverVars, sheetVars, runVars>>

\* one run of the interval callback (lines 229-237): read the height,
\* scroll, add, and either clear the timer and resolve, which lets
\* autoScroll go on to its waitForTimeout, or leave the timer running
TimerTick ==
    /\ scrollPc = "interval"
    /\ totalHeight' = totalHeight + Distance
    /\ increments' = increments + 1
    /\ scrollPc' = IF \/ totalHeight' >= scrollHeight - innerHeight
                      \/ totalHeight' > ScrollCap
                   THEN "settle" ELSE "interval"
    /\ UNCHANGED <<scrollHeight, innerHeight>>
    /\ UNCHANGED <<scraperVars, contactVars, commandVars, serverVars, sheetVars, runVars>>

\* lazy-loaded content arrives while the timer runs: the document grows
PageGrows ==
    /\ scrollPc = "interval"
    /\ \E h \in PageHeights : h > scrollHeight /\ scrollHeight' = h
    /\ UNCHANGED <<scrollPc, totalHeight, innerHeight, increments>>
    /\ UNCHANGED <<scraperVars, contactVars, commandVars, serverVars, sheetVars, runVars>>

\* page.evaluate rejects (the page was closed or navigated): autoScroll
\* rejects without reaching its waitForTimeout
ScrollEvaluateRejects ==
    /\ scrollPc = "interval"
    /\ scrollPc' = "rejected"
    /\ UNCHANGED <<totalHeight, scrollHeight, innerHeight, increments>>
    /\ UNCHANGED <<scraperVars, contactVars, commandVars, serverVars, sheetVars, runVars>>

\* await page.waitForTimeout(1000), then autoScroll returns
SettleDelay ==
    /\ scrollPc = "settle"
    /\ scrollPc' = "done"
    /\ UNCHANGED <<totalHeight, scrollHeight, innerHeight, increments>>
    /\ UNCHANGED <<scraperVars, contactVars, commandVars, serverVars, sheetVars, runVars>>

NextScroll ==
    \/ TimerTick
    \/ PageGrows
    \/ ScrollEvaluateRejects
    \/ SettleDelay

InitScroll ==
    /\ ScraperIdle /\ ContactIdle /\ CommandIdle /\ ServerIdle
    /\ SheetIdle /\ ScrollInit /\ RunIdle

\* the timer of setInterval fires as long as it is not cleared, and the
\* timeout of waitForTimeout fires
SpecScroll ==
    InitScroll /\ [][NextScroll]_vars /\ WF_vars(TimerTick) /\ WF_vars(SettleDelay)

\* ---- claim about autoScroll

ScrollBounded ==
    /\ increments <= 7
    /\ totalHeight = increments * 500
    /\ totalHeight <= 3500

\* once the loop has stopped nothing scrolls any more, and the settle delay
\* is waited from the stopped loop only
StoppedStaysStopped ==
    /\ scrollPc \in {"settle", "done", "rejected"} => UNCHANGED <<increments, totalHeight>>
    /\ scrollPc' = "done" => scrollPc \in {"settle", "done"}

\* C26: for every page height and every growth of the page while scrolling,
\* the scroll loop stops after at most 7 increments of 500 pixels (at most
\* 3500 in total), autoScroll ends, and the settle delay is waited only
\* after the loop has stopped.
C26_AutoScrollTerminates ==
    /\ []ScrollBounded
    /\ [][StoppedStaysStopped]_vars
    /\ <>(scrollPc \in {"done", "rejected"})

\* the loop was stopped by the cap alone, on a page that kept growing
C26_Witness ==
    /\ scrollPc = "done"
    /\ increments = 7
    /\ totalHeight < scrollHeight - innerHeight

----------------------------------------------------------------------------
(* The busy flag over time (src/unnamed/part_004:90-202,                    *)
(* src/unnamed/part_002:60-157): the awaited operations of a task settle.   *)

SpecServerFair ==
    /\ InitServer /\ [][NextServer]_vars
    /\ WF_vars(ScrapeSettles) /\ WF_vars(SaveSettles)
    /\ WF_vars(NotifySettles) /\ WF_vars(ErrorNoticeSettles)

\* a runCrawlTask call that left its try body, by return or by catch, has
\* reset the flag it had set
LeavingResetsFlag ==
    \A t \in 1..Len(tasks) :
        (/\ t \in FlagHolders
         /\ tasks'[t].pc \in {"success", "errorNotice", "error"}) => ~isCrawling'

\* C28: a runCrawlTask call that set isCrawling resets it on the success
\* path and on every error path (scrape591, saveListings or a notification
\* failing); the flag is never true while no crawl task is running, and,
\* the awaited operations settling, it always becomes false again, so a
\* later call can start a scrape.
C28_FlagAlwaysReset ==
    /\ [](isCrawling => FlagHolders # {})
    /\ [][LeavingResetsFlag]_vars
    /\ (isCrawling ~> ~isCrawling)

\* after a run that failed in its notifications, a later call started a
\* scrape
C28_Witness ==
    /\ Len(tasks) = 2
    /\ tasks[1] = Task("cron", "error")
    /\ tasks[2] = Task("crawl", "scrape591")
    /\ isCrawling

----------------------------------------------------------------------------
(* A scrape591 run next to the webhook's region and rent commands:          *)
(* src/unnamed/part_002:81-87 (the call), 270-371 (the commands),           *)
(* src/scraper.js:291-369 (destructuring and loop).  SEARCH_CONFIG.targets  *)
(* is a reference to an array: in this specification searchConfig.targets   *)
(* is the index of that array in arrays, and the run holds the reference    *)
(* it was given.  A webhook event is handled between two awaits of the run. *)

\* target arrays allocated by region commands
MaxArrays == 2

\* scrape591 runs
MaxRuns == 2

\* the region commands of this specification: a keyword, two districts, a
\* name the table does not hold, and no argument
RunRegionArgs ==
    { <<>>, <<KeywordTaipei>>, << <<"zhong", "shan">>, <<"dan", "shui">> >>,
      << <<"tian", "mu">> >> }

\* the rent commands of this specification: an accepted pair, a pair below
\* the lower limit, and a text without numbers
RunRentTexts ==
    { RentKeyword \o <<" ">> \o NatToText(5000) \o <<"-">> \o NatToText(9000),
      RentKeyword \o <<" ">> \o NatToText(999) \o <<"-">> \o NatToText(9000),
      RentKeyword }

\* the array a region command assigns to SEARCH_CONFIG.targets, <<>> when it
\* assigns none (part_002:296-297, 303-330, 357-365)
AssignedTargets(args) ==
    IF args = <<>> THEN <<>>
    ELSE IF args[1] = KeywordDefault THEN DefaultTargets
    ELSE IF args[1] \in KeywordAll
         THEN <<CityTarget(1, TaipeiCity), CityTarget(3, NewTaipeiCity)>>
    ELSE IF args[1] = KeywordTaipei THEN <<CityTarget(1, TaipeiCity)>>
    ELSE IF args[1] = KeywordNewTaipei THEN <<CityTarget(3, NewTaipeiCity)>>
    ELSE ResolveArgs(args, <<>>, <<>>)[1]

\* the pair a rent command stores, <<>> when it stores none (part_002:271-275)
AssignedRents(text) ==
    LET match == RentMatch(text)
        min == ParseInt(match[1]).val
        max == ParseInt(match[2]).val
    IN  IF match # <<>> /\ min < max /\ min >= MinRentLimit /\ max <= MaxRentLimit
        THEN <<min, max>>
        ELSE <<>>

RunInit ==
    /\ arrays = <<DefaultTargets>>
    /\ searchConfig = [targets |-> 1, minRent |-> DefaultMinRent,
                       maxRent |-> DefaultMaxRent]
    /\ command = [kind |-> "none"]
    /\ scrapeCall = [kind |-> "none"]
    /\ run = [pc |-> "idle", n |-> 0]

\* a region command that writes the new targets into the array in place
RegionAssignInPlace ==
    \E args \in RunRegionArgs :
        /\ IF AssignedTargets(args) = <<>>
           THEN UNCHANGED arrays
           ELSE arrays' = [arrays EXCEPT ![searchConfig.targets] = AssignedTargets(args)]
        /\ UNCHANGED <<searchConfig, run, command, scrapeCall>>
        /\ UNCHANGED <<scraperVars, contactVars, serverVars, sheetVars, scrollVars>>

\* the region command: SEARCH_CONFIG.targets = [...], a new array
RegionAssign ==
    \E args \in RunRegionArgs :
        /\ IF AssignedTargets(args) = <<>> \/ Len(arrays) >= MaxArrays + 1
           THEN UNCHANGED <<arrays, searchConfig>>
           ELSE /\ arrays' = Append(arrays, AssignedTargets(args))
                /\ searchConfig' = [searchConfig EXCEPT !.targets = Len(arrays) + 1]
        /\ UNCHANGED <<run, command, scrapeCall>>
        /\ UNCHANGED <<scraperVars, contactVars, serverVars, sheetVars, scrollVars>>

\* the rent command: SEARCH_CONFIG.minRent = min; SEARCH_CONFIG.maxRent = max
RentAssign ==
    \E text \in RunRentTexts :
        /\ IF AssignedRents(text) = <<>>
           THEN UNCHANGED searchConfig
           ELSE searchConfig' = [searchConfig EXCEPT
                                    !.minRent = AssignedRents(text)[1],
                                    !.maxRent = AssignedRents(text)[2]]
        /\ UNCHANGED <<arrays, run, command, scrapeCall>>
        /\ UNCHANGED <<scraperVars, contactVars, serverVars, sheetVars, scrollVars>>

\* runCrawlTask calls scrape591({ targets: SEARCH_CONFIG.targets, minRent:
\* SEARCH_CONFIG.minRent, maxRent: SEARCH_CONFIG.maxRent, ... }), which
\* destructures its options; given keeps the values the caller passed
RunStart ==
    /\ run.pc \in {"idle", "returned"}
    /\ run.n < MaxRuns
    /\ run' = [pc |-> "loop", n |-> run.n + 1, targets |-> searchConfig.targets,
               minRent |-> searchConfig.minRent, maxRent |-> searchConfig.maxRent,
               idx |-> 1, used |-> <<>>,
               given |-> [targets |-> arrays[searchConfig.targets],
                          minRent |-> searchConfig.minRent,
                          maxRent |-> searchConfig.maxRent]]
    /\ UNCHANGED <<arrays, searchConfig, command, scrapeCall>>
    /\ UNCHANGED <<scraperVars, contactVars, serverVars, sheetVars, scrollVars>>

\* one turn of `for (const target of targets)`: the iterator reads the
\* array the run refers to, the body scrapes target with minRent, maxRent
RunIterate ==
    /\ run.pc = "loop"
    /\ IF run.idx > Len(arrays[run.targets])
       THEN run' = [run EXCEPT !.pc = "returned"]
       ELSE run' = [run EXCEPT
                       !.used = Append(@, [target |-> arrays[run.targets][run.idx],
                                           minRent |-> run.minRent,
                                           maxRent |-> run.maxRent]),
                       !.idx = @ + 1]
    /\ UNCHANGED <<arrays, searchConfig, command, scrapeCall>>
    /\ UNCHANGED <<scraperVars, contactVars, serverVars, sheetVars, scrollVars>>

NextRun ==
    \/ RegionAssign
    \/ RentAssign
    \/ RunStart
    \/ RunIterate

InitRun ==
    /\ ScraperIdle /\ ContactIdle /\ ServerIdle
    /\ SheetIdle /\ ScrollIdle /\ RunInit

SpecRun == InitRun /\ [][NextRun]_vars

\* ---- claim about commands during a run

\* the targets and rents the run used so far are those it was given, in
\* the order given
UsedAsGiven ==
    /\ Len(run.used) <= Len(run.given.targets)
    /\ \A i \in 1..Len(run.used) :
          run.used[i] = [target |-> run.given.targets[i],
                         minRent |-> run.given.minRent,
                         maxRent |-> run.given.maxRent]
    /\ run.pc = "returned" => Len(run.used) = Len(run.given.targets)

\* a command leaves the run where it is
CommandLeavesRun ==
    (searchConfig' # searchConfig) => UNCHANGED run

\* C27: a region or rent command handled while a scrape591 run is in
\* progress changes neither the targets, their order and descriptors, nor
\* the rent bounds that run uses; it affects the runs started afterwards.
C27_RunKeepsItsOptions ==
    /\ [](run.pc \in {"loop", "returned"} => UsedAsGiven)
    /\ [][CommandLeavesRun]_vars
    /\ [][(run'.pc = "loop" /\ run.pc # "loop") =>
             run'.given = [targets |-> arrays[searchConfig.targets],
                           minRent |-> searchConfig.minRent,
                           maxRent |-> searchConfig.maxRent]]_vars

\* a run finished with the four default targets and the default rents
\* although both were replaced while it was running
C27_Witness ==
    /\ run.pc = "returned"
    /\ run.given.targets = DefaultTargets
    /\ Len(run.used) = 4
    /\ arrays[searchConfig.targets] # DefaultTargets
    /\ searchConfig.minRent # run.given.minRent

====
